---- MODULE Spec2Model ----
(***************************************************************************)
(* State-machine model of backend/main.py (EduConnect API): the in-memory  *)
(* store DATA, the persisted document written by save_data, and one action *)
(* per request handler.  Handlers run one at a time (each action is a whole *)
(* request) in every specification but SpecConcurrent and SpecRebind,     *)
(* where the worker threads of the server run handlers statement by        *)
(* statement.                                                              *)
(*                                                                         *)
(* Representation choices:                                                 *)
(*  - Python dicts are TLA+ functions whose DOMAIN is the key set; Python  *)
(*    lists are sequences.                                                 *)
(*  - The floats cgpa and sgpa are kept in hundredths (sgpa 8.57 is 857).  *)
(*    Python's round() is round-half-to-even; round_div computes it on the *)
(*    exact quotient.  That agrees with the float computation of main.py   *)
(*    for every attendance total below 40 and every credit sum below 20,   *)
(*    which covers all values the input sets below can produce.            *)
(*  - datetime.now() is an input of the handlers that read it (Clock).     *)
(***************************************************************************)
EXTENDS Integers, Sequences, FiniteSets, TLC

VARIABLES
    DATA,   \* the global DATA of main.py: the in-memory store
    FILE,   \* the content of student_data.json: the persisted store
    last,   \* the last request handled: its handler, arguments and outcome
    fuel,   \* requests the run may still handle (bounds the exploration)
    threads, \* the worker threads: the request each one is in, and its locals
    replaced \* the store objects that process replaced while a handler held them

vars == <<DATA, FILE, last, fuel, threads, replaced>>

(***************************************************************************)
(* Bounds of the exploration: the number of requests in one run.           *)
(***************************************************************************)
MaxOps == 2
MaxAttOps == 4
MaxGradeOps == 4
MaxFeeOps == 4
MaxNoticeOps == 5
MaxStoreOps == 2
MaxQueryOps == 2
MaxLibraryOps == 3
MaxRequests == 2
MaxUpsertOps == 3
MaxFailureOps == 3
MaxExamOps == 3

(***************************************************************************)
(* str.lower() on the ASCII letters.                                       *)
(***************************************************************************)
UpperLetters == "ABCDEFGHIJKLMNOPQRSTUVWXYZ"
LowerLetters == "abcdefghijklmnopqrstuvwxyz"

\* the lower-case letter of each upper-case letter
LowerOf ==
    [c \in {SubSeq(UpperLetters, i, i) : i \in 1..Len(UpperLetters)} |->
        LET i == CHOOSE j \in 1..Len(UpperLetters) : SubSeq(UpperLetters, j, j) = c
        IN  SubSeq(LowerLetters, i, i)]

LowerChar(c) == IF c \in DOMAIN LowerOf THEN LowerOf[c] ELSE c

RECURSIVE Lower(_)
Lower(s) ==
    IF Len(s) = 0 THEN ""
    ELSE LowerChar(SubSeq(s, 1, 1)) \o Lower(SubSeq(s, 2, Len(s)))

(***************************************************************************)
(* Python dict helpers.                                                    *)
(***************************************************************************)
EmptyDict == [k \in {} |-> 0]

\* d[k] = v
DictSet(d, k, v) == [x \in DOMAIN d \cup {k} |-> IF x = k THEN v ELSE d[x]]

\* del d[k]
DictDel(d, k) == [x \in DOMAIN d \ {k} |-> d[x]]

\* d.update(u)
DictUpdate(d, u) == [x \in DOMAIN d \cup DOMAIN u |-> IF x \in DOMAIN u THEN u[x] ELSE d[x]]

\* sum(e[field] for e in d.values())
RECURSIVE SumField(_, _)
SumField(d, field) ==
    IF DOMAIN d = {} THEN 0
    ELSE LET k == CHOOSE x \in DOMAIN d : TRUE
         IN  d[k][field] + SumField(DictDel(d, k), field)

(***************************************************************************)
(* round(n / d) for d > 0, as Python rounds: to the nearest integer, a tie *)
(* to the even one.                                                        *)
(***************************************************************************)
round_div(n, d) ==
    LET q == n \div d
        r == n - q * d
    IN  IF 2 * r < d THEN q
        ELSE IF 2 * r > d THEN q + 1
        ELSE IF q % 2 = 0 THEN q ELSE q + 1

(***************************************************************************)
(* Inputs of the requests.                                                 *)
(***************************************************************************)
\* StudentBasic.name of create_student / update_student
Names == {"Ada", "ADA", "bob"}

\* student_key of the student-scoped handlers
KeyInputs == {"ADA", "Bob"}

\* the other StudentBasic fields, as two complete payloads
Profiles ==
    { [email |-> "a@edu.in", phone |-> "100", course |-> "B.Tech CSE", year |-> "1st",
       semester |-> "1", section |-> "A", roll_no |-> "R01", dob |-> "01 Jan 2005",
       address |-> "Delhi", cgpa |-> 0],
      [email |-> "b@edu.in", phone |-> "200", course |-> "B.Tech ECE", year |-> "2nd",
       semester |-> "3", section |-> "B", roll_no |-> "R02", dob |-> "02 Feb 2004",
       address |-> "Pune", cgpa |-> 812] }

StudentBasics ==
    { [name |-> n, email |-> p.email, phone |-> p.phone, course |-> p.course,
       year |-> p.year, semester |-> p.semester, section |-> p.section,
       roll_no |-> p.roll_no, dob |-> p.dob, address |-> p.address, cgpa |-> p.cgpa]
      : n \in Names, p \in Profiles }

\* datetime.now(), as the handlers format it
Clock == { [year |-> "2026", date |-> "02 Nov 2026", mmss |-> "0415"] }

AttSubjects == {"Maths", "Physics"}
PresentCounts == {-1, 1, 3}
TotalCounts == {-8, 0, 8}

\* f"{n:02d}", f"{n:03d}"
Pad2(n) == IF n < 10 THEN "0" \o ToString(n) ELSE ToString(n)
Pad3(n) == IF n < 10 THEN "00" \o ToString(n) ELSE IF n < 100 THEN "0" \o ToString(n) ELSE ToString(n)

(***************************************************************************)
(* Persistence: json.dump / json.load of the whole store.  Every key of    *)
(* the store is a string and every leaf a string or an integer, so the     *)
(* document read back is the store that was written.                       *)
(***************************************************************************)
save_data(data) == data
load_data(file) == file

(***************************************************************************)
(* The store.  main.py indexes "students", "notices" and "timetable"       *)
(* directly, so a loadable document has at least these three keys.         *)
(***************************************************************************)
InitialStore == [students |-> EmptyDict, notices |-> <<>>, timetable |-> EmptyDict]

NoRequest == [op |-> "none", key |-> "", status |-> 0, req |-> <<>>]

\* the worker threads of the server, all waiting for a request
Threads == {1, 2}
\* obj is the store object the handler took its record from: -1 none yet, 0 the
\* object the global DATA is bound to, n > 0 the object replaced[n]
IdleThread == [pc |-> "idle", req |-> <<>>, tmp |-> <<>>, done |-> <<>>, obj |-> -1]
NoThreads == [t \in Threads |-> IdleThread]

\* raise HTTPException(status_code=...): nothing is written
Raise(op, student_key, status) ==
    /\ UNCHANGED <<DATA, FILE, threads, replaced>>
    /\ last' = [op |-> op, key |-> student_key, status |-> status, req |-> <<>>]

\* the handler mutated DATA into data, called save_data(DATA) and returned
Saved(op, student_key, req, data) ==
    /\ DATA' = data
    /\ FILE' = save_data(data)
    /\ UNCHANGED <<threads, replaced>>
    /\ last' = [op |-> op, key |-> student_key, status |-> 200, req |-> req]

\* the handler mutated DATA into data and save_data(DATA) raised OSError when it
\* opened the file: the document is as it was, the exception leaves the handler
\* and the server answers 500.  (An error raised after the open, while the
\* document is written, leaves a truncated document; that outcome is not
\* modelled.)
SaveFailed(op, student_key, req, data) ==
    /\ DATA' = data
    /\ UNCHANGED <<FILE, threads, replaced>>
    /\ last' = [op |-> op, key |-> student_key, status |-> 500, req |-> req]

\* the handler returned without mutating or saving
Returned(op, student_key, req) ==
    /\ UNCHANGED <<DATA, FILE, threads, replaced>>
    /\ last' = [op |-> op, key |-> student_key, status |-> 200, req |-> req]

\* DATA with DATA["students"][key] replaced by record
WithStudent(data, key, record) == [data EXCEPT !.students = DictSet(@, key, record)]

(***************************************************************************)
(* STUDENTS CRUD                                                           *)
(***************************************************************************)
new_student(student, now, count) ==
    [id |-> "CSE" \o now.year \o "A" \o Pad2(count + 1),
     name |-> student.name, email |-> student.email, phone |-> student.phone,
     course |-> student.course, year |-> student.year, semester |-> student.semester,
     section |-> student.section, roll_no |-> student.roll_no, dob |-> student.dob,
     address |-> student.address, cgpa |-> student.cgpa,
     attendance |-> [overall_percent |-> 0, total_classes |-> 0, present |-> 0,
                     absent |-> 0, subjects |-> EmptyDict],
     grades |-> [current_semester |-> EmptyDict, sgpa |-> 0, cgpa |-> student.cgpa,
                 total_credits |-> 0, earned_credits |-> 0],
     exams |-> <<>>,
     library |-> [books_borrowed |-> <<>>, total_borrowed |-> 0, total_fine |-> 0,
                  max_books |-> 5],
     fees |-> [total_fee |-> 0, paid |-> 0, pending |-> 0, due_date |-> "",
               payment_history |-> <<>>, breakdown |-> EmptyDict],
     courses |-> <<>>]

\* create_student without the "already exists" check: the record is overwritten
create_student_overwrite ==
    /\ fuel > 0
    /\ fuel' = fuel - 1
    /\ \E student \in StudentBasics, now \in Clock :
         Saved("create_student", student.name, student,
               WithStudent(DATA, Lower(student.name),
                           new_student(student, now, Cardinality(DOMAIN DATA.students))))

create_student ==
    /\ fuel > 0
    /\ fuel' = fuel - 1
    /\ \E student \in StudentBasics, now \in Clock :
         LET key == Lower(student.name) IN
         IF key \in DOMAIN DATA.students
         THEN Raise("create_student", student.name, 400)
         ELSE Saved("create_student", student.name, student,
                    WithStudent(DATA, key,
                                new_student(student, now, Cardinality(DOMAIN DATA.students))))

basic_fields(student) ==
    [name |-> student.name, email |-> student.email, phone |-> student.phone,
     course |-> student.course, year |-> student.year, semester |-> student.semester,
     section |-> student.section, roll_no |-> student.roll_no, dob |-> student.dob,
     address |-> student.address, cgpa |-> student.cgpa]

\* update_student storing a record rebuilt from the payload instead of updating
\* the fields of the stored one
update_student_rebuild ==
    /\ fuel > 0
    /\ fuel' = fuel - 1
    /\ \E student_key \in KeyInputs :
         LET key == Lower(student_key) IN
         IF key \notin DOMAIN DATA.students
         THEN Raise("update_student", student_key, 404)
         ELSE \E student \in StudentBasics, now \in Clock :
              Saved("update_student", student_key, student,
                    WithStudent(DATA, key,
                                [new_student(student, now, 0) EXCEPT
                                    !.id = DATA.students[key].id]))

update_student ==
    /\ fuel > 0
    /\ fuel' = fuel - 1
    /\ \E student_key \in KeyInputs :
         LET key == Lower(student_key) IN
         IF key \notin DOMAIN DATA.students
         THEN Raise("update_student", student_key, 404)
         ELSE \E student \in StudentBasics :
              Saved("update_student", student_key, student,
                    WithStudent(DATA, key,
                                DictUpdate(DATA.students[key], basic_fields(student))))

delete_student ==
    /\ fuel > 0
    /\ fuel' = fuel - 1
    /\ \E student_key \in KeyInputs :
         LET key == Lower(student_key) IN
         IF key \notin DOMAIN DATA.students
         THEN Raise("delete_student", student_key, 404)
         ELSE Saved("delete_student", student_key, <<>>,
                    [DATA EXCEPT !.students = DictDel(@, key)])

(***************************************************************************)
(* ATTENDANCE                                                              *)
(***************************************************************************)
\* the quotient guarded against a zero divisor only, so that a negative total
\* is divided by
percent_of_nonzero(present, total) ==
    IF total > 0 THEN round_div(100 * present, total)
    ELSE IF total < 0 THEN round_div(-100 * present, -total)
    ELSE 0

\* round((present / total) * 100) if total > 0 else 0
percent_of(present, total) == IF total > 0 THEN round_div(100 * present, total) ELSE 0

\* update_attendance adding the new counts to the stored aggregates instead of
\* summing the subjects again
attendance_updated_incremental(attendance, subject, present, total) ==
    LET subjects == DictSet(attendance.subjects, subject,
                            [present |-> present, total |-> total,
                             percent |-> percent_of(present, total)])
        total_present == attendance.present + present
        total_classes == attendance.total_classes + total
    IN  [attendance EXCEPT
            !.subjects = subjects,
            !.present = total_present,
            !.total_classes = total_classes,
            !.absent = total_classes - total_present,
            !.overall_percent = percent_of(total_present, total_classes)]

\* update_attendance computing absent before present and total_classes are stored
attendance_updated_stale_absent(attendance, subject, present, total) ==
    LET subjects == DictSet(attendance.subjects, subject,
                            [present |-> present, total |-> total,
                             percent |-> percent_of(present, total)])
        total_present == SumField(subjects, "present")
        total_classes == SumField(subjects, "total")
    IN  [attendance EXCEPT
            !.subjects = subjects,
            !.present = total_present,
            !.total_classes = total_classes,
            !.absent = attendance.total_classes - attendance.present,
            !.overall_percent = percent_of(total_present, total_classes)]

\* the attendance record after update_attendance's entry write and recalculation
attendance_updated(attendance, subject, present, total) ==
    LET subjects == DictSet(attendance.subjects, subject,
                            [present |-> present, total |-> total,
                             percent |-> percent_of(present, total)])
        total_present == SumField(subjects, "present")
        total_classes == SumField(subjects, "total")
    IN  [attendance EXCEPT
            !.subjects = subjects,
            !.present = total_present,
            !.total_classes = total_classes,
            !.absent = total_classes - total_present,
            !.overall_percent = percent_of(total_present, total_classes)]

update_attendance ==
    /\ fuel > 0
    /\ fuel' = fuel - 1
    /\ \E student_key \in KeyInputs :
         LET key == Lower(student_key) IN
         IF key \notin DOMAIN DATA.students
         THEN Raise("update_attendance", student_key, 404)
         ELSE \E subject \in AttSubjects, present \in PresentCounts, total \in TotalCounts :
              Saved("update_attendance", student_key,
                    [subject |-> subject, present |-> present, total |-> total],
                    [DATA EXCEPT !.students[key].attendance =
                        attendance_updated(@, subject, present, total)])

\* the attendance record after delete_attendance removed an existing subject
attendance_deleted(attendance, subject) ==
    [attendance EXCEPT !.subjects = DictDel(@, subject)]

delete_attendance ==
    /\ fuel > 0
    /\ fuel' = fuel - 1
    /\ \E student_key \in KeyInputs :
         LET key == Lower(student_key) IN
         IF key \notin DOMAIN DATA.students
         THEN Raise("delete_attendance", student_key, 404)
         ELSE \E subject \in AttSubjects :
              IF subject \in DOMAIN DATA.students[key].attendance.subjects
              THEN Saved("delete_attendance", student_key, [subject |-> subject],
                         [DATA EXCEPT !.students[key].attendance =
                             attendance_deleted(@, subject)])
              ELSE Returned("delete_attendance", student_key, [subject |-> subject])

(***************************************************************************)
(* GRADES                                                                  *)
(***************************************************************************)
GradeSubjects == {"DSA", "OS"}
GradeLetters == {"A", "B+", "A-", "E"}
GradeMarks == {85}
GradeCredits == {-3, 3, 4}

\* grades_map of update_grade, the points in tenths (A- is 8.5)
grades_map ==
    [g \in {"A+", "A", "A-", "B+", "B", "B-", "C+", "C", "D", "F"} |->
        CASE g = "A+" -> 100 [] g = "A"  -> 90 [] g = "A-" -> 85
          [] g = "B+" -> 80  [] g = "B"  -> 70 [] g = "B-" -> 65
          [] g = "C+" -> 60  [] g = "C"  -> 50 [] g = "D"  -> 40
          [] g = "F"  -> 0]

\* grades_map.get(grade, 0)
grade_point(grade) == IF grade \in DOMAIN grades_map THEN grades_map[grade] ELSE 0

\* total_points of the loop over current_semester, in tenths
RECURSIVE total_points(_)
total_points(current_semester) ==
    IF DOMAIN current_semester = {} THEN 0
    ELSE LET subj == CHOOSE x \in DOMAIN current_semester : TRUE
             data == current_semester[subj]
         IN  grade_point(data.grade) * data.credits
                + total_points(DictDel(current_semester, subj))

\* round(total_points / total_credits, 2) if total_credits > 0 else 0, in hundredths
sgpa_of(current_semester) ==
    LET total_credits == SumField(current_semester, "credits")
    IN  IF total_credits > 0
        THEN round_div(10 * total_points(current_semester), total_credits)
        ELSE 0

\* update_grade adding the new credits to the stored earned_credits instead of
\* summing the mapping again
grades_updated_incremental(grades, subject, grade, marks, credits) ==
    LET current_semester == DictSet(grades.current_semester, subject,
                                    [grade |-> grade, marks |-> marks, credits |-> credits])
        total_credits == grades.earned_credits + credits
    IN  [grades EXCEPT
            !.current_semester = current_semester,
            !.sgpa = IF total_credits > 0
                     THEN round_div(10 * total_points(current_semester), total_credits)
                     ELSE 0,
            !.earned_credits = total_credits]

\* the grades record after update_grade's entry write and recalculation
grades_updated(grades, subject, grade, marks, credits) ==
    LET current_semester == DictSet(grades.current_semester, subject,
                                    [grade |-> grade, marks |-> marks, credits |-> credits])
    IN  [grades EXCEPT
            !.current_semester = current_semester,
            !.sgpa = sgpa_of(current_semester),
            !.earned_credits = SumField(current_semester, "credits")]

update_grade ==
    /\ fuel > 0
    /\ fuel' = fuel - 1
    /\ \E student_key \in KeyInputs :
         LET key == Lower(student_key) IN
         IF key \notin DOMAIN DATA.students
         THEN Raise("update_grade", student_key, 404)
         ELSE \E subject \in GradeSubjects, grade \in GradeLetters,
                 marks \in GradeMarks, credits \in GradeCredits :
              Saved("update_grade", student_key,
                    [subject |-> subject, grade |-> grade, marks |-> marks,
                     credits |-> credits],
                    [DATA EXCEPT !.students[key].grades =
                        grades_updated(@, subject, grade, marks, credits)])

\* the grades record after delete_grade removed an existing subject
grades_deleted(grades, subject) ==
    [grades EXCEPT !.current_semester = DictDel(@, subject)]

delete_grade ==
    /\ fuel > 0
    /\ fuel' = fuel - 1
    /\ \E student_key \in KeyInputs :
         LET key == Lower(student_key) IN
         IF key \notin DOMAIN DATA.students
         THEN Raise("delete_grade", student_key, 404)
         ELSE \E subject \in GradeSubjects :
              IF subject \in DOMAIN DATA.students[key].grades.current_semester
              THEN Saved("delete_grade", student_key, [subject |-> subject],
                         [DATA EXCEPT !.students[key].grades = grades_deleted(@, subject)])
              ELSE Returned("delete_grade", student_key, [subject |-> subject])

(***************************************************************************)
(* EXAMS                                                                   *)
(***************************************************************************)
ExamSubjects == {"DSA", "OS"}
ExamDetails ==
    { [date |-> "10 Dec 2026", time |-> "10:00", venue |-> "Hall 1",
       exam_type |-> "End-Sem", days_left |-> 38] }

\* add_exam putting the new entry in front of the list
exams_added_in_front(exams, subject, exam) ==
    <<[subject |-> subject, date |-> exam.date, time |-> exam.time,
       venue |-> exam.venue, type |-> exam.exam_type,
       days_left |-> exam.days_left]>> \o exams

\* DATA["students"][key]["exams"].append({...})
exams_added(exams, subject, exam) ==
    Append(exams, [subject |-> subject, date |-> exam.date, time |-> exam.time,
                   venue |-> exam.venue, type |-> exam.exam_type,
                   days_left |-> exam.days_left])

add_exam ==
    /\ fuel > 0
    /\ fuel' = fuel - 1
    /\ \E student_key \in KeyInputs :
         LET key == Lower(student_key) IN
         IF key \notin DOMAIN DATA.students
         THEN Raise("add_exam", student_key, 404)
         ELSE \E subject \in ExamSubjects, exam \in ExamDetails :
              Saved("add_exam", student_key, [subject |-> subject],
                    [DATA EXCEPT !.students[key].exams = exams_added(@, subject, exam)])

\* delete_exam keeping the entries of the subject instead of the others
exams_deleted_inverted(exams, subject) == SelectSeq(exams, LAMBDA e : e.subject = subject)

\* [e for e in exams if e["subject"] != subject]
exams_deleted(exams, subject) == SelectSeq(exams, LAMBDA e : e.subject # subject)

delete_exam ==
    /\ fuel > 0
    /\ fuel' = fuel - 1
    /\ \E student_key \in KeyInputs :
         LET key == Lower(student_key) IN
         IF key \notin DOMAIN DATA.students
         THEN Raise("delete_exam", student_key, 404)
         ELSE \E subject \in ExamSubjects :
              Saved("delete_exam", student_key, [subject |-> subject],
                    [DATA EXCEPT !.students[key].exams = exams_deleted(@, subject)])

(***************************************************************************)
(* FEES                                                                    *)
(***************************************************************************)
TotalFees == {0, 1000}
PaidAmounts == {-500, 400, 1000}
DueDates == {"31 Dec 2026"}
PayAmounts == {-500, 400}
PayModes == {"Online"}

\* update_fees starting a new payment history
fees_updated_new_history(fees, total_fee, paid, due_date) ==
    [fees EXCEPT
        !.total_fee = total_fee,
        !.paid = paid,
        !.pending = total_fee - paid,
        !.due_date = due_date,
        !.payment_history = <<>>]

fees_updated(fees, total_fee, paid, due_date) ==
    [fees EXCEPT
        !.total_fee = total_fee,
        !.paid = paid,
        !.pending = total_fee - paid,
        !.due_date = due_date]

update_fees ==
    /\ fuel > 0
    /\ fuel' = fuel - 1
    /\ \E student_key \in KeyInputs :
         LET key == Lower(student_key) IN
         IF key \notin DOMAIN DATA.students
         THEN Raise("update_fees", student_key, 404)
         ELSE \E total_fee \in TotalFees, paid \in PaidAmounts, due_date \in DueDates :
              Saved("update_fees", student_key,
                    [total_fee |-> total_fee, paid |-> paid, due_date |-> due_date],
                    [DATA EXCEPT !.students[key].fees =
                        fees_updated(@, total_fee, paid, due_date)])

\* update_fees when save_data fails
update_fees_save_fails ==
    /\ fuel > 0
    /\ fuel' = fuel - 1
    /\ \E student_key \in KeyInputs :
         LET key == Lower(student_key) IN
         IF key \notin DOMAIN DATA.students
         THEN Raise("update_fees", student_key, 404)
         ELSE \E total_fee \in TotalFees, paid \in PaidAmounts, due_date \in DueDates :
              SaveFailed("update_fees", student_key,
                         [total_fee |-> total_fee, paid |-> paid, due_date |-> due_date],
                         [DATA EXCEPT !.students[key].fees =
                             fees_updated(@, total_fee, paid, due_date)])

\* add_payment computing pending from paid as it was before the increment
fees_paid_stale_pending(fees, amount, mode, now) ==
    [fees EXCEPT
        !.paid = fees.paid + amount,
        !.pending = fees.total_fee - fees.paid,
        !.payment_history =
            Append(@, [date |-> now.date, amount |-> amount, mode |-> mode,
                       receipt |-> "REC" \o Pad3(Len(fees.payment_history) + 1)])]

fees_paid(fees, amount, mode, now) ==
    LET paid == fees.paid + amount
    IN  [fees EXCEPT
            !.paid = paid,
            !.pending = fees.total_fee - paid,
            !.payment_history =
                Append(@, [date |-> now.date, amount |-> amount, mode |-> mode,
                           receipt |-> "REC" \o Pad3(Len(fees.payment_history) + 1)])]

add_payment ==
    /\ fuel > 0
    /\ fuel' = fuel - 1
    /\ \E student_key \in KeyInputs :
         LET key == Lower(student_key) IN
         IF key \notin DOMAIN DATA.students
         THEN Raise("add_payment", student_key, 404)
         ELSE \E amount \in PayAmounts, mode \in PayModes, now \in Clock :
              Saved("add_payment", student_key, [amount |-> amount, mode |-> mode],
                    [DATA EXCEPT !.students[key].fees = fees_paid(@, amount, mode, now)])

(***************************************************************************)
(* LIBRARY                                                                 *)
(***************************************************************************)
BookTitles == {"SICP", "CLRS"}

\* the title of return_book: a borrowed title, or one that differs in case
ReturnTitles == BookTitles \cup {"sicp"}
BookDetails ==
    { [author |-> "Abelson", issue_date |-> "01 Nov 2026", due_date |-> "15 Nov 2026"] }

library_added(library, title, book) ==
    LET books_borrowed ==
            Append(library.books_borrowed,
                   [title |-> title, author |-> book.author,
                    issue_date |-> book.issue_date, due_date |-> book.due_date,
                    fine |-> 0, status |-> "Active"])
    IN  [library EXCEPT !.books_borrowed = books_borrowed,
                        !.total_borrowed = Len(books_borrowed)]

add_library_book ==
    /\ fuel > 0
    /\ fuel' = fuel - 1
    /\ \E student_key \in KeyInputs :
         LET key == Lower(student_key) IN
         IF key \notin DOMAIN DATA.students
         THEN Raise("add_library_book", student_key, 404)
         ELSE \E title \in BookTitles, book \in BookDetails :
              Saved("add_library_book", student_key, [title |-> title],
                    [DATA EXCEPT !.students[key].library = library_added(@, title, book)])

\* the index of the first book whose title is title, 0 when there is none
first_book(books, title) ==
    IF \E i \in 1..Len(books) : books[i].title = title
    THEN CHOOSE i \in 1..Len(books) :
            /\ books[i].title = title
            /\ \A j \in 1..(i - 1) : books[j].title # title
    ELSE 0

\* return_book removing only the first entry of the title
library_returned_first_only(library, title) ==
    LET books == library.books_borrowed
        i == first_book(books, title)
        books_borrowed == IF i = 0 THEN books
                          ELSE SubSeq(books, 1, i - 1) \o SubSeq(books, i + 1, Len(books))
    IN  [library EXCEPT !.books_borrowed = books_borrowed,
                        !.total_borrowed = Len(books_borrowed)]

library_returned(library, title) ==
    LET books_borrowed == SelectSeq(library.books_borrowed, LAMBDA b : b.title # title)
    IN  [library EXCEPT !.books_borrowed = books_borrowed,
                        !.total_borrowed = Len(books_borrowed)]

return_book ==
    /\ fuel > 0
    /\ fuel' = fuel - 1
    /\ \E student_key \in KeyInputs :
         LET key == Lower(student_key) IN
         IF key \notin DOMAIN DATA.students
         THEN Raise("return_book", student_key, 404)
         ELSE \E title \in ReturnTitles :
              Saved("return_book", student_key, [title |-> title],
                    [DATA EXCEPT !.students[key].library = library_returned(@, title)])

(***************************************************************************)
(* COURSES                                                                 *)
(***************************************************************************)
CourseCodes == {"CS101", "CS102"}
CourseDetails ==
    { [name |-> "Algorithms", credits |-> 4, professor |-> "Dr. Rao",
       schedule |-> "Mon 10:00"] }

courses_added(courses, code, course) ==
    Append(courses, [code |-> code, name |-> course.name, credits |-> course.credits,
                     professor |-> course.professor, schedule |-> course.schedule])

add_course_to_student ==
    /\ fuel > 0
    /\ fuel' = fuel - 1
    /\ \E student_key \in KeyInputs :
         LET key == Lower(student_key) IN
         IF key \notin DOMAIN DATA.students
         THEN Raise("add_course_to_student", student_key, 404)
         ELSE \E code \in CourseCodes, course \in CourseDetails :
              Saved("add_course_to_student", student_key, [code |-> code],
                    [DATA EXCEPT !.students[key].courses = courses_added(@, code, course)])

courses_removed(courses, course_code) == SelectSeq(courses, LAMBDA c : c.code # course_code)

remove_course ==
    /\ fuel > 0
    /\ fuel' = fuel - 1
    /\ \E student_key \in KeyInputs :
         LET key == Lower(student_key) IN
         IF key \notin DOMAIN DATA.students
         THEN Raise("remove_course", student_key, 404)
         ELSE \E course_code \in CourseCodes :
              Saved("remove_course", student_key, [course_code |-> course_code],
                    [DATA EXCEPT !.students[key].courses = courses_removed(@, course_code)])

(***************************************************************************)
(* APPOINTMENTS AND CAFETERIA ORDERS (per-student lists created on first   *)
(* use)                                                                    *)
(***************************************************************************)
Appointments ==
    { [professor_name |-> "Dr. Rao", date |-> "05 Nov 2026", time |-> "15:00",
       purpose |-> "Project"] }

\* the student record after book_appointment appended new_appt
appointment_booked(student, appt) ==
    LET new_appt == [professor |-> appt.professor_name, date |-> appt.date,
                     time |-> appt.time, purpose |-> appt.purpose,
                     status |-> "Pending Approval"]
        before == IF "faculty_appointments" \in DOMAIN student
                  THEN student.faculty_appointments ELSE <<>>
    IN  DictSet(student, "faculty_appointments", Append(before, new_appt))

book_appointment ==
    /\ fuel > 0
    /\ fuel' = fuel - 1
    /\ \E student_key \in KeyInputs :
         LET key == Lower(student_key) IN
         IF key \notin DOMAIN DATA.students
         THEN Raise("book_appointment", student_key, 404)
         ELSE \E appt \in Appointments :
              Saved("book_appointment", student_key, appt,
                    WithStudent(DATA, key, appointment_booked(DATA.students[key], appt)))

Orders == { [items |-> <<"Samosa">>, total_amount |-> 20] }

\* the student record after place_order inserted new_order at index 0
order_placed(student, order, now) ==
    LET new_order == [id |-> "ORD" \o now.mmss, items |-> order.items,
                      total |-> order.total_amount, status |-> "Preparing",
                      date |-> now.date]
        before == IF "cafeteria_orders" \in DOMAIN student
                  THEN student.cafeteria_orders ELSE <<>>
    IN  DictSet(student, "cafeteria_orders", <<new_order>> \o before)

\* place_order creating the record of an unknown student instead of raising
place_order_autocreate ==
    /\ fuel > 0
    /\ fuel' = fuel - 1
    /\ \E student_key \in KeyInputs, order \in Orders, now \in Clock :
         LET key == Lower(student_key)
             student == IF key \in DOMAIN DATA.students
                        THEN DATA.students[key] ELSE EmptyDict
         IN  Saved("place_order", student_key, order,
                   WithStudent(DATA, key, order_placed(student, order, now)))

place_order ==
    /\ fuel > 0
    /\ fuel' = fuel - 1
    /\ \E student_key \in KeyInputs :
         LET key == Lower(student_key) IN
         IF key \notin DOMAIN DATA.students
         THEN Raise("place_order", student_key, 404)
         ELSE \E order \in Orders, now \in Clock :
              Saved("place_order", student_key, order,
                    WithStudent(DATA, key, order_placed(DATA.students[key], order, now)))

(***************************************************************************)
(* READS of the admin API                                                  *)
(***************************************************************************)
\* the request returned value without mutating or saving
Answered(op, student_key, req, value) ==
    /\ UNCHANGED <<DATA, FILE, threads, replaced>>
    /\ last' = [op |-> op, key |-> student_key, status |-> 200, req |-> req,
                ret |-> value]

get_student ==
    /\ fuel > 0
    /\ fuel' = fuel - 1
    /\ \E student_key \in KeyInputs :
         LET key == Lower(student_key) IN
         IF key \notin DOMAIN DATA.students
         THEN Raise("get_student", student_key, 404)
         ELSE Answered("get_student", student_key, <<>>,
                       [student |-> DATA.students[key], key |-> key])

(***************************************************************************)
(* NOTICES                                                                 *)
(***************************************************************************)
NoticeInputs ==
    { [title |-> "Holiday", content |-> "Campus closed", notice_type |-> "info",
       author |-> "Dean"],
      [title |-> "Fee deadline", content |-> "Pay by Friday", notice_type |-> "urgent",
       author |-> "Accounts"] }

NoticeIds == {1, 2, 3}

get_notices ==
    /\ fuel > 0
    /\ fuel' = fuel - 1
    /\ Answered("get_notices", "", <<>>, [notices |-> DATA.notices])

\* new_notice of create_notice
new_notice(notices, notice, now) ==
    [id |-> Len(notices) + 1, title |-> notice.title, content |-> notice.content,
     type |-> notice.notice_type, date |-> now.date, author |-> notice.author,
     time_ago |-> "Just now"]

\* create_notice appending the new notice at the end of the list
notices_created_appended(notices, notice, now) ==
    Append(notices, new_notice(notices, notice, now))

\* DATA["notices"].insert(0, new_notice)
notices_created(notices, notice, now) == <<new_notice(notices, notice, now)>> \o notices

create_notice ==
    /\ fuel > 0
    /\ fuel' = fuel - 1
    /\ \E notice \in NoticeInputs, now \in Clock :
         Saved("create_notice", "", notice,
               [DATA EXCEPT !.notices = notices_created(@, notice, now)])

\* [n for n in DATA["notices"] if n["id"] != notice_id]
notices_deleted(notices, notice_id) == SelectSeq(notices, LAMBDA n : n.id # notice_id)

delete_notice ==
    /\ fuel > 0
    /\ fuel' = fuel - 1
    /\ \E notice_id \in NoticeIds :
         Saved("delete_notice", "", [notice_id |-> notice_id],
               [DATA EXCEPT !.notices = notices_deleted(@, notice_id)])

(***************************************************************************)
(* CAFETERIA ADMIN AND TIMETABLE                                           *)
(***************************************************************************)
OrderIds == {"ORD0415", "ORD0000"}
OrderStatuses == {"Ready"}

\* the index of the first order whose id is order_id, 0 when there is none
first_order(orders, order_id) ==
    IF \E i \in 1..Len(orders) : orders[i].id = order_id
    THEN CHOOSE i \in 1..Len(orders) :
            /\ orders[i].id = order_id
            /\ \A j \in 1..(i - 1) : orders[j].id # order_id
    ELSE 0

\* update_order_status returning without the call of save_data
update_order_status_unsaved ==
    /\ fuel > 0
    /\ fuel' = fuel - 1
    /\ \E student_key \in KeyInputs :
         LET key == Lower(student_key) IN
         IF key \notin DOMAIN DATA.students
         THEN Raise("update_order_status", student_key, 404)
         ELSE \E order_id \in OrderIds, status \in OrderStatuses :
              LET student == DATA.students[key]
                  orders == IF "cafeteria_orders" \in DOMAIN student
                            THEN student.cafeteria_orders ELSE <<>>
                  i == first_order(orders, order_id)
              IN  IF i = 0
                  THEN Raise("update_order_status", student_key, 404)
                  ELSE /\ DATA' = [DATA EXCEPT
                                      !.students[key].cafeteria_orders[i].status = status]
                       /\ UNCHANGED <<FILE, threads, replaced>>
                       /\ last' = [op |-> "update_order_status", key |-> student_key,
                                   status |-> 200,
                                   req |-> [order_id |-> order_id, status |-> status]]

update_order_status ==
    /\ fuel > 0
    /\ fuel' = fuel - 1
    /\ \E student_key \in KeyInputs :
         LET key == Lower(student_key) IN
         IF key \notin DOMAIN DATA.students
         THEN Raise("update_order_status", student_key, 404)
         ELSE \E order_id \in OrderIds, status \in OrderStatuses :
              LET student == DATA.students[key]
                  orders == IF "cafeteria_orders" \in DOMAIN student
                            THEN student.cafeteria_orders ELSE <<>>
                  i == first_order(orders, order_id)
              IN  IF i = 0
                  THEN Raise("update_order_status", student_key, 404)
                  ELSE Saved("update_order_status", student_key,
                             [order_id |-> order_id, status |-> status],
                             [DATA EXCEPT !.students[key].cafeteria_orders[i].status =
                                 status])

MenuItems == { [item |-> "Samosa", price |-> 20, category |-> "Snacks"] }
MenuItemIds == {1, 2}

\* DATA after add_menu_item created the menu if needed and appended new_item
menu_added(data, item) ==
    LET with_menu == IF "cafeteria" \in DOMAIN data THEN data
                     ELSE DictSet(data, "cafeteria", [menu |-> <<>>])
        new_id == Len(with_menu.cafeteria.menu) + 1
        new_item == [id |-> new_id, item |-> item.item, price |-> item.price,
                     category |-> item.category]
    IN  [with_menu EXCEPT !.cafeteria.menu = Append(@, new_item)]

add_menu_item ==
    /\ fuel > 0
    /\ fuel' = fuel - 1
    /\ \E item \in MenuItems :
         Saved("add_menu_item", "", item, menu_added(DATA, item))

delete_menu_item ==
    /\ fuel > 0
    /\ fuel' = fuel - 1
    /\ \E item_id \in MenuItemIds :
         IF "cafeteria" \in DOMAIN DATA /\ "menu" \in DOMAIN DATA.cafeteria
         THEN Saved("delete_menu_item", "", [item_id |-> item_id],
                    [DATA EXCEPT !.cafeteria.menu = SelectSeq(@, LAMBDA i : i.id # item_id)])
         ELSE Returned("delete_menu_item", "", [item_id |-> item_id])

Days == {"Monday", "tuesday"}
Classes ==
    { [time |-> "09:00", course |-> "Algorithms", room |-> "R1", professor |-> "Dr. Rao",
       class_type |-> "Lecture"] }

\* the timetable after add_class created the day's list if needed and appended
timetable_added(timetable, day, class) ==
    LET before == IF day \in DOMAIN timetable THEN timetable[day] ELSE <<>>
    IN  DictSet(timetable, day,
                Append(before, [time |-> class.time, course |-> class.course,
                                room |-> class.room, professor |-> class.professor,
                                type |-> class.class_type]))

add_class ==
    /\ fuel > 0
    /\ fuel' = fuel - 1
    /\ \E d \in Days, class \in Classes :
         LET day == Lower(d) IN
         Saved("add_class", "", [day |-> d],
               [DATA EXCEPT !.timetable = timetable_added(@, day, class)])

(***************************************************************************)
(* STUDENT VOICE API: the intent classifier                                *)
(***************************************************************************)
\* word in t
Contains(t, word) ==
    \E i \in 1..(Len(t) - Len(word) + 1) : SubSeq(t, i, i + Len(word) - 1) = word

\* any(word in t for word in words)
AnyIn(t, words) == \E word \in words : Contains(t, word)

\* the keyword list of each test of detect_intent
intent_keywords ==
    [attendance |-> {"attendance", "present", "absent"},
     timetable  |-> {"timetable", "schedule", "class today", "classes today",
                     "today's class"},
     exams      |-> {"exam", "test", "examination", "mid-sem", "end-sem"},
     grades     |-> {"grade", "result", "marks", "cgpa", "sgpa", "gpa", "score"},
     library    |-> {"library", "book", "borrow", "due", "fine"},
     fees       |-> {"fee", "payment", "pay", "dues", "tuition"},
     notices    |-> {"notice", "announcement", "news", "update", "circular"},
     courses    |-> {"course", "subject", "credit", "professor", "teacher"},
     profile    |-> {"profile", "my info", "my details", "about me", "student info"},
     help       |-> {"help", "what can you", "how to", "assist"},
     greet      |-> {"hello", "hi", "hey", "good morning", "good afternoon",
                     "good evening"},
     placements |-> {"placement", "job", "internship", "recruit", "company", "package",
                     "ctc"},
     events     |-> {"event", "club", "workshop", "fest", "seminar", "hackathon",
                     "activity"},
     faculty    |-> {"faculty", "professor", "teacher", "appointment", "cabin",
                     "meet sir", "meet ma'am"},
     cafeteria  |-> {"cafeteria", "canteen", "food", "menu", "order", "eat", "lunch",
                     "snack"},
     cgpa_calc  |-> {"predict cgpa", "calculate cgpa", "target cgpa", "gpa calculator"}]

\* detect_intent testing the grades keywords before the attendance keywords
detect_intent_grades_first(text) ==
    LET t == Lower(text) IN
    IF AnyIn(t, intent_keywords.grades) THEN "grades"
    ELSE IF AnyIn(t, intent_keywords.attendance) THEN "attendance"
    ELSE IF AnyIn(t, intent_keywords.timetable) THEN "timetable"
    ELSE IF AnyIn(t, intent_keywords.exams) THEN "exams"
    ELSE IF AnyIn(t, intent_keywords.library) THEN "library"
    ELSE IF AnyIn(t, intent_keywords.fees) THEN "fees"
    ELSE IF AnyIn(t, intent_keywords.notices) THEN "notices"
    ELSE IF AnyIn(t, intent_keywords.courses) THEN "courses"
    ELSE IF AnyIn(t, intent_keywords.profile) THEN "profile"
    ELSE IF AnyIn(t, intent_keywords.help) THEN "help"
    ELSE IF AnyIn(t, intent_keywords.greet) THEN "greet"
    ELSE IF AnyIn(t, intent_keywords.placements) THEN "placements"
    ELSE IF AnyIn(t, intent_keywords.events) THEN "events"
    ELSE IF AnyIn(t, intent_keywords.faculty) THEN "faculty"
    ELSE IF AnyIn(t, intent_keywords.cafeteria) THEN "cafeteria"
    ELSE IF AnyIn(t, intent_keywords.cgpa_calc) THEN "cgpa_calc"
    ELSE "unknown"

\* detect_intent testing the cgpa_calc keywords before the grades keywords
detect_intent_cgpa_calc_first(text) ==
    LET t == Lower(text) IN
    IF AnyIn(t, intent_keywords.attendance) THEN "attendance"
    ELSE IF AnyIn(t, intent_keywords.timetable) THEN "timetable"
    ELSE IF AnyIn(t, intent_keywords.exams) THEN "exams"
    ELSE IF AnyIn(t, intent_keywords.cgpa_calc) THEN "cgpa_calc"
    ELSE IF AnyIn(t, intent_keywords.grades) THEN "grades"
    ELSE IF AnyIn(t, intent_keywords.library) THEN "library"
    ELSE IF AnyIn(t, intent_keywords.fees) THEN "fees"
    ELSE IF AnyIn(t, intent_keywords.notices) THEN "notices"
    ELSE IF AnyIn(t, intent_keywords.courses) THEN "courses"
    ELSE IF AnyIn(t, intent_keywords.profile) THEN "profile"
    ELSE IF AnyIn(t, intent_keywords.help) THEN "help"
    ELSE IF AnyIn(t, intent_keywords.greet) THEN "greet"
    ELSE IF AnyIn(t, intent_keywords.placements) THEN "placements"
    ELSE IF AnyIn(t, intent_keywords.events) THEN "events"
    ELSE IF AnyIn(t, intent_keywords.faculty) THEN "faculty"
    ELSE IF AnyIn(t, intent_keywords.cafeteria) THEN "cafeteria"
    ELSE "unknown"

detect_intent(text) ==
    LET t == Lower(text) IN
    IF AnyIn(t, intent_keywords.attendance) THEN "attendance"
    ELSE IF AnyIn(t, intent_keywords.timetable) THEN "timetable"
    ELSE IF AnyIn(t, intent_keywords.exams) THEN "exams"
    ELSE IF AnyIn(t, intent_keywords.grades) THEN "grades"
    ELSE IF AnyIn(t, intent_keywords.library) THEN "library"
    ELSE IF AnyIn(t, intent_keywords.fees) THEN "fees"
    ELSE IF AnyIn(t, intent_keywords.notices) THEN "notices"
    ELSE IF AnyIn(t, intent_keywords.courses) THEN "courses"
    ELSE IF AnyIn(t, intent_keywords.profile) THEN "profile"
    ELSE IF AnyIn(t, intent_keywords.help) THEN "help"
    ELSE IF AnyIn(t, intent_keywords.greet) THEN "greet"
    ELSE IF AnyIn(t, intent_keywords.placements) THEN "placements"
    ELSE IF AnyIn(t, intent_keywords.events) THEN "events"
    ELSE IF AnyIn(t, intent_keywords.faculty) THEN "faculty"
    ELSE IF AnyIn(t, intent_keywords.cafeteria) THEN "cafeteria"
    ELSE IF AnyIn(t, intent_keywords.cgpa_calc) THEN "cgpa_calc"
    ELSE "unknown"

\* Query texts: every keyword alone, phrases without a keyword, and every pair
\* of the words below (keywords of each test, in both letter cases, and words
\* that only contain a keyword inside another word).
PlainPhrases == {"", "xyz", "who am i", "sgp", "Namaste", "clas today"}

PairWords ==
    {"attendance", "ABSENT", "timetable", "Exam", "marks", "cgpa", "book", "fee",
     "notice", "course", "professor", "profile", "help", "hello", "placement",
     "event", "faculty", "cabin", "menu", "predict cgpa", "gpa calculator",
     "latest", "weather", "this", "xyz", "my"}

QueryTexts ==
    UNION {intent_keywords[tag] : tag \in DOMAIN intent_keywords}
        \cup PlainPhrases
        \cup {a \o " " \o b : a \in PairWords, b \in PairWords}

\* a query text waiting to be classified
Query(text) == [op |-> "query", key |-> "", status |-> 0, req |-> [text |-> text]]

\* one call of detect_intent, on the waiting text
detect_intent_call ==
    /\ last.op = "query"
    /\ last' = [op |-> "detect_intent", key |-> "", status |-> 200, req |-> last.req,
                ret |-> detect_intent(last.req.text)]
    /\ UNCHANGED <<DATA, FILE, fuel, threads, replaced>>

(***************************************************************************)
(* STUDENT VOICE API: get_day_from_text                                    *)
(***************************************************************************)
days == <<"monday", "tuesday", "wednesday", "thursday", "friday", "saturday", "sunday">>

\* datetime.now().weekday(): 0 is Monday, 6 is Sunday
WeekdayNow == 0..6

\* datetime.now().strftime("%A").lower()
weekday_name(day_index) == days[day_index + 1]

\* the first day of the list days that occurs in t
first_day_in(t) ==
    days[CHOOSE i \in 1..Len(days) :
            /\ Contains(t, days[i])
            /\ \A j \in 1..(i - 1) : ~Contains(t, days[j])]

\* get_day_from_text testing "tomorrow" before "today"
get_day_from_text_tomorrow_first(text, day_index) ==
    LET t == Lower(text) IN
    IF Contains(t, "tomorrow") THEN days[((day_index + 1) % 7) + 1]
    ELSE IF Contains(t, "today") THEN weekday_name(day_index)
    ELSE IF \E i \in 1..Len(days) : Contains(t, days[i]) THEN first_day_in(t)
    ELSE weekday_name(day_index)

get_day_from_text(text, day_index) ==
    LET t == Lower(text) IN
    IF Contains(t, "today") THEN weekday_name(day_index)
    ELSE IF Contains(t, "tomorrow") THEN days[((day_index + 1) % 7) + 1]
    ELSE IF \E i \in 1..Len(days) : Contains(t, days[i]) THEN first_day_in(t)
    ELSE weekday_name(day_index)

\* Texts: each of "today", "tomorrow" and three weekday names alone and in
\* every pair, in either order and in capitals, and texts with none of them.
DayWords == {"today", "tomorrow", "TODAY", "Tomorrow", "monday", "Friday", "sunday"}

DayTexts ==
    {"", "timetable", "yesterday", "to day", "sun day", "mondays and tuesdays"}
        \cup {"classes " \o a : a \in DayWords}
        \cup {a \o " or " \o b : a \in DayWords, b \in DayWords}

\* a text and a current weekday waiting for get_day_from_text
DayQuery(text, day_index) ==
    [op |-> "day_query", key |-> "", status |-> 0,
     req |-> [text |-> text, weekday |-> day_index]]

\* one call of get_day_from_text, on the waiting text
get_day_from_text_call ==
    /\ last.op = "day_query"
    /\ last' = [op |-> "get_day_from_text", key |-> "", status |-> 200, req |-> last.req,
                ret |-> get_day_from_text(last.req.text, last.req.weekday)]
    /\ UNCHANGED <<DATA, FILE, fuel, threads, replaced>>

(***************************************************************************)
(* STUDENT VOICE API: process.  The replies are the texts of main.py       *)
(* without their pictographs (a pictograph and the blank after it are left *)
(* out, the bullet of a list line is written "-").  A dict of the store    *)
(* has no insertion order here, so a reply that lists a dict is one of the *)
(* replies over the orders its keys can have.  The float cgpa and sgpa are *)
(* printed from their hundredths; the integer 0 that update_grade stores   *)
(* when the credits sum is not positive is printed like the float 0.0.     *)
(***************************************************************************)
\* "".join(parts)
RECURSIVE Concat(_)
Concat(parts) == IF Len(parts) = 0 THEN "" ELSE Head(parts) \o Concat(Tail(parts))

\* sep.join(parts)
RECURSIVE Join(_, _)
Join(sep, parts) ==
    IF Len(parts) = 0 THEN ""
    ELSE IF Len(parts) = 1 THEN parts[1]
    ELSE parts[1] \o sep \o Join(sep, Tail(parts))

\* str.strip() of a text whose white space is blanks and newlines
RECURSIVE Strip(_)
Strip(s) ==
    IF Len(s) = 0 THEN s
    ELSE IF SubSeq(s, 1, 1) \in {" ", "\n"} THEN Strip(SubSeq(s, 2, Len(s)))
    ELSE IF SubSeq(s, Len(s), Len(s)) \in {" ", "\n"} THEN Strip(SubSeq(s, 1, Len(s) - 1))
    ELSE s

\* str.capitalize(): the first letter in upper case, the others in lower case
UpperChar(c) ==
    IF \E i \in 1..Len(LowerLetters) : SubSeq(LowerLetters, i, i) = c
    THEN LET i == CHOOSE j \in 1..Len(LowerLetters) : SubSeq(LowerLetters, j, j) = c
         IN  SubSeq(UpperLetters, i, i)
    ELSE c

Capitalize(s) ==
    IF Len(s) = 0 THEN s
    ELSE UpperChar(SubSeq(s, 1, 1)) \o Lower(SubSeq(s, 2, Len(s)))

\* f"{n:,}"
RECURSIVE Commas(_)
Commas(n) ==
    IF n < 0 THEN "-" \o Commas(-n)
    ELSE IF n < 1000 THEN ToString(n)
    ELSE Commas(n \div 1000) \o "," \o Pad3(n % 1000)

\* str() of the float whose hundredths are h
float_str(h) ==
    LET a == IF h < 0 THEN -h ELSE h
        frac == a % 100
        digits == IF frac % 10 = 0 THEN ToString(frac \div 10) ELSE Pad2(frac)
    IN  (IF h < 0 THEN "-" ELSE "") \o ToString(a \div 100) \o "." \o digits

\* the orders in which the keys of a dict can be listed
Orderings(keys) ==
    {order \in [1..Cardinality(keys) -> keys] :
        \A i, j \in 1..Cardinality(keys) : i # j => order[i] # order[j]}

\* d.get(k, default)
DictGet(d, k, default) == IF k \in DOMAIN d THEN d[k] ELSE default

\* datetime.now().hour
HourNow == {9, 13, 18}

apology_reply(user) ==
    "Sorry, I couldn't find data for " \o user \o ". Please check your credentials."

low_attendance_warning ==
    "\n\nWarning: Your attendance is below 75%. Please attend more classes!"

commendation == "\n\nExcellent attendance! Keep it up!"

\* the attendance reply commending only above 90 percent
attendance_replies_above_90(student) ==
    LET att == student.attendance
        overall == att.overall_percent
        subjects == att.subjects
    IN  { "Your overall attendance is " \o ToString(overall) \o "%.\n"
            \o "Classes attended: " \o ToString(att.present) \o "/"
            \o ToString(att.total_classes) \o " (Absent: " \o ToString(att.absent) \o ")\n\n"
            \o "Subject-wise breakdown:\n"
            \o Join("\n", [i \in 1..Len(order) |->
                             "- " \o order[i] \o ": "
                                  \o ToString(subjects[order[i]].percent) \o "%"])
            \o (IF overall < 75 THEN low_attendance_warning
                ELSE IF overall > 90 THEN commendation
                ELSE "")
          : order \in Orderings(DOMAIN subjects) }

attendance_replies(student) ==
    LET att == student.attendance
        overall == att.overall_percent
        subjects == att.subjects
    IN  { "Your overall attendance is " \o ToString(overall) \o "%.\n"
            \o "Classes attended: " \o ToString(att.present) \o "/"
            \o ToString(att.total_classes) \o " (Absent: " \o ToString(att.absent) \o ")\n\n"
            \o "Subject-wise breakdown:\n"
            \o Join("\n", [i \in 1..Len(order) |->
                             "- " \o order[i] \o ": "
                                  \o ToString(subjects[order[i]].percent) \o "%"])
            \o (IF overall < 75 THEN low_attendance_warning
                ELSE IF overall >= 90 THEN commendation
                ELSE "")
          : order \in Orderings(DOMAIN subjects) }

timetable_replies(data, text) ==
    { LET day == get_day_from_text(text, day_index)
          timetable == data.timetable
      IN  IF day \notin DOMAIN timetable
          THEN "No classes scheduled for " \o Capitalize(day) \o "."
          ELSE Strip("Timetable for " \o Capitalize(day) \o ":\n\n"
                 \o Concat([i \in 1..Len(timetable[day]) |->
                      LET c == timetable[day][i]
                      IN  c.time \o " - " \o c.course \o "\n"
                            \o "   " \o c.room \o " | " \o c.professor \o " | "
                            \o c.type \o "\n\n"]))
      : day_index \in WeekdayNow }

\* the replies of process to a caller whose record is student
student_replies(data, student, text, intent) ==
    LET
        exams_reply ==
            LET exams == student.exams
            IN  IF Len(exams) = 0 THEN "No upcoming exams scheduled."
                ELSE Strip("Upcoming Examinations:\n\n"
                       \o Concat([i \in 1..Len(exams) |->
                            LET exam == exams[i]
                            IN  exam.subject \o " (" \o exam.type \o ")\n"
                                  \o "   " \o exam.date \o " at " \o exam.time \o "\n"
                                  \o "   Venue: " \o exam.venue \o "\n"
                                  \o "   " \o ToString(exam.days_left) \o " days left\n\n"]))
        grades_replies ==
            LET grades == student.grades
                current == grades.current_semester
            IN  { Strip("Academic Performance:\n\n"
                    \o "CGPA: " \o float_str(grades.cgpa) \o " | SGPA: " \o float_str(grades.sgpa)
                    \o "\n"
                    \o "Credits: " \o ToString(grades.earned_credits) \o "/"
                    \o ToString(grades.total_credits) \o "\n\n"
                    \o "Current Semester Grades:\n"
                    \o Concat([i \in 1..Len(order) |->
                         "- " \o order[i] \o ": " \o current[order[i]].grade \o " ("
                              \o ToString(current[order[i]].marks) \o " marks)\n"]))
                  : order \in Orderings(DOMAIN current) }
        library_reply ==
            LET library == student.library
                books == library.books_borrowed
            IN  Strip("Library Status:\n\n"
                  \o "Books borrowed: " \o ToString(library.total_borrowed) \o "/"
                  \o ToString(library.max_books) \o "\n"
                  \o (IF library.total_fine > 0
                      THEN "Outstanding fine: " \o ToString(library.total_fine) \o "\n" ELSE "")
                  \o "\nBorrowed Books:\n"
                  \o Concat([i \in 1..Len(books) |->
                       "\n" \o books[i].title \o "\n"
                            \o "   Author: " \o books[i].author \o "\n"
                            \o "   Due: " \o books[i].due_date \o " (" \o books[i].status \o ")\n"]))
        fees_reply ==
            LET fees == student.fees
            IN  Strip("Fee Details:\n\n"
                  \o "Total Fee: " \o Commas(fees.total_fee) \o "\n"
                  \o "Paid: " \o Commas(fees.paid) \o "\n"
                  \o "Pending: " \o Commas(fees.pending) \o "\n"
                  \o "Due Date: " \o fees.due_date \o "\n")
        notices_reply ==
            LET notices == SubSeq(data.notices, 1, IF Len(data.notices) < 5 THEN Len(data.notices) ELSE 5)
            IN  Strip("Latest Notices:\n\n"
                  \o Concat([i \in 1..Len(notices) |->
                       notices[i].title \o "\n"
                         \o "   " \o notices[i].author \o " - " \o notices[i].time_ago \o "\n\n"]))
        courses_reply ==
            LET courses == student.courses
            IN  Strip("Enrolled Courses:\n\n"
                  \o Concat([i \in 1..Len(courses) |->
                       courses[i].code \o ": " \o courses[i].name \o "\n"
                         \o "   " \o courses[i].professor \o " | " \o ToString(courses[i].credits)
                         \o " credits\n\n"]))
        profile_reply ==
            "Student Profile:\n\n"
              \o "Name: " \o student.name \o "\n"
              \o "Roll No: " \o student.roll_no \o "\n"
              \o "Email: " \o student.email \o "\n"
              \o "Phone: " \o student.phone \o "\n"
              \o "Course: " \o student.course \o "\n"
              \o "Year: " \o student.year \o " (" \o student.semester \o ")\n"
              \o "CGPA: " \o float_str(student.cgpa)
        help_reply ==
            "I can help you with:\n\n"
              \o "Attendance | Timetable | Exams\n"
              \o "Grades | Library | Fees\n"
              \o "Notices | Courses | Profile"
        greet_replies ==
            { LET greeting == IF hour < 12 THEN "Good morning"
                              ELSE IF hour < 17 THEN "Good afternoon" ELSE "Good evening"
              IN  greeting \o ", " \o student.name \o "! How can I help you today?"
              : hour \in HourNow }
        placements_reply ==
            LET placements == DictGet(data, "placements", <<>>)
            IN  Strip("Placement Updates:\n\n"
                  \o Concat([i \in 1..Len(placements) |->
                       LET p == placements[i]
                       IN  p.company \o " (" \o p.type \o ")\n"
                             \o "   CTC: " \o p.ctc \o " | Role: " \o p.roles[1] \o "\n"
                             \o "   Date: " \o p.date \o "\n\n"]))
        events_reply ==
            LET events == DictGet(data, "events", <<>>)
            IN  Strip("Upcoming Campus Events:\n\n"
                  \o Concat([i \in 1..Len(events) |->
                       LET e == events[i]
                       IN  e.name \o "\n"
                             \o "   " \o e.date \o " @ " \o e.venue \o "\n"
                             \o "   " \o e.description \o "\n\n"]))
        faculty_reply ==
            LET faculty == DictGet(data, "faculty", <<>>)
            IN  Strip("Faculty Directory:\n\n"
                  \o Concat([i \in 1..Len(faculty) |->
                       LET f == faculty[i]
                       IN  f.name \o " (" \o f.designation \o ")\n"
                             \o "   " \o f.cabin \o " | " \o f.email \o "\n\n"])
                  \o "You can ask me to 'Book an appointment' if needed!")
        cafeteria_reply ==
            LET menu == DictGet(DictGet(data, "cafeteria", EmptyDict), "menu", <<>>)
            IN  Strip("Cafeteria Menu:\n\n"
                  \o Concat([i \in 1..Len(menu) |->
                       "- " \o menu[i].item \o " - " \o ToString(menu[i].price) \o "\n"])
                  \o "\nSay 'Order [Item Name]' to place an order!")
        cgpa_calc_reply ==
            "To calculate your target CGPA, please use the 'CGPA Predictor' tool in the "
              \o "dashboard menu. It allows you to simulate your future grades!"
        unknown_reply ==
            "I didn't understand. Try asking about attendance, timetable, exams, fees, "
              \o "library, placements, events, faculty, or cafeteria!"
    IN
    CASE intent = "attendance" -> attendance_replies(student)
      [] intent = "timetable"  -> timetable_replies(data, text)
      [] intent = "exams"      -> {exams_reply}
      [] intent = "grades"     -> grades_replies
      [] intent = "library"    -> {library_reply}
      [] intent = "fees"       -> {fees_reply}
      [] intent = "notices"    -> {notices_reply}
      [] intent = "courses"    -> {courses_reply}
      [] intent = "profile"    -> {profile_reply}
      [] intent = "help"       -> {help_reply}
      [] intent = "greet"      -> greet_replies
      [] intent = "placements" -> {placements_reply}
      [] intent = "events"     -> {events_reply}
      [] intent = "faculty"    -> {faculty_reply}
      [] intent = "cafeteria"  -> {cafeteria_reply}
      [] intent = "cgpa_calc"  -> {cgpa_calc_reply}
      [] OTHER                 -> {unknown_reply}

\* process answering the intents that need no record before it looks the
\* caller up
process_replies_lookup_late(data, query) ==
    LET text == Lower(query.text)
        intent == detect_intent(text)
        user_key == Lower(query.user)
    IN  IF intent = "help" THEN student_replies(data, EmptyDict, text, intent)
        ELSE IF intent = "unknown" THEN student_replies(data, EmptyDict, text, intent)
        ELSE IF user_key \notin DOMAIN data.students THEN {apology_reply(query.user)}
        ELSE student_replies(data, data.students[user_key], text, intent)

\* the replies process can return on the store data it loaded
process_replies(data, query) ==
    LET text == Lower(query.text)
        intent == detect_intent(text)
        user_key == Lower(query.user)
    IN  IF user_key \notin DOMAIN data.students THEN {apology_reply(query.user)}
        ELSE student_replies(data, data.students[user_key], text, intent)

\* UserQuery.text: one text for each test of detect_intent, and one without a
\* keyword
ProcessTexts ==
    {"what is my attendance", "How often was I ABSENT", "timetable tomorrow",
     "next exam", "my marks", "library", "fees", "any notice", "my courses",
     "profile", "help", "hello", "placement", "fest", "faculty cabin", "menu",
     "predict cgpa", "xyz"}

\* UserQuery.user
UserInputs == {"ADA", "Bob"}

process ==
    /\ fuel > 0
    /\ fuel' = fuel - 1
    /\ \E text \in ProcessTexts, user \in UserInputs :
         LET query == [text |-> text, user |-> user]
             data == load_data(FILE)
         IN  \E reply \in process_replies(data, query) :
                /\ DATA' = data
                /\ UNCHANGED <<FILE, threads, replaced>>
                /\ last' = [op |-> "process", key |-> user, status |-> 200,
                            req |-> query, ret |-> [reply |-> reply]]

(***************************************************************************)
(* CONCURRENT REQUESTS.  The handlers are plain `def` functions, which the *)
(* server runs on the threads of a pool, and main.py takes no lock: the    *)
(* threads share the object DATA and interleave between the statements of  *)
(* the handlers.  A step below is one statement of a handler; an augmented *)
(* assignment is a read followed by a write.  sum(), the loop of           *)
(* update_grade and save_data are taken as single steps, which leaves out  *)
(* the interleavings inside them.                                          *)
(***************************************************************************)
\* the requests the threads receive
ConcurrentRequests ==
    { [op |-> "add_payment", key |-> "ADA", amount |-> 400, mode |-> "Online"],
      [op |-> "update_attendance", key |-> "ADA", subject |-> "Physics", present |-> 3,
       total |-> 8],
      [op |-> "update_grade", key |-> "ADA", subject |-> "OS", grade |-> "B+",
       marks |-> 85, credits |-> 3],
      [op |-> "get_student", key |-> "ADA"],
      [op |-> "get_student", key |-> "Bob"] }

\* a waiting thread is given one of requests and enters its handler
receive(requests) ==
    /\ fuel > 0
    /\ fuel' = fuel - 1
    /\ \E t \in Threads, r \in requests :
         /\ threads[t].pc = "idle"
         /\ threads' = [threads EXCEPT ![t].pc = r.op \o ":begin", ![t].req = r]
    /\ UNCHANGED <<DATA, FILE, last, replaced>>

receive_request == receive(ConcurrentRequests)

\* thread t is at statement pc of the handler op
At(t, op, pc) == threads[t].pc = op \o ":" \o pc

\* thread t moves to statement pc of its handler, with the locals tmp
Goto(t, pc, tmp) ==
    threads' = [threads EXCEPT ![t].pc = threads[t].req.op \o ":" \o pc, ![t].tmp = tmp]

\* thread t leaves its handler with status and the returned value ret
Finish(t, status, ret) ==
    /\ threads' = [threads EXCEPT
                      ![t] = [IdleThread EXCEPT
                                !.done = Append(threads[t].done,
                                                [req |-> threads[t].req,
                                                 status |-> status])]]
    /\ last' = [op |-> threads[t].req.op, key |-> threads[t].req.key,
                status |-> status, req |-> threads[t].req, ret |-> ret]

\* key = student_key.lower(); if key not in DATA["students"]: raise ...;
\* student = DATA["students"][key]
lookup(t, op, pc) ==
    /\ At(t, op, "begin")
    /\ IF Lower(threads[t].req.key) \notin DOMAIN DATA.students
       THEN Finish(t, 404, <<>>)
       ELSE /\ threads' = [threads EXCEPT ![t].pc = op \o ":" \o pc, ![t].obj = 0]
            /\ UNCHANGED last
    /\ UNCHANGED <<DATA, FILE, fuel, replaced>>

\* a statement of thread t that computes locals and writes nothing
compute(t, op, pc, next_pc, tmp) ==
    /\ At(t, op, pc)
    /\ Goto(t, next_pc, tmp)
    /\ UNCHANGED <<DATA, FILE, last, fuel, replaced>>

\* a statement of thread t that stores student into the record its local
\* `student` refers to: a record of the object DATA is bound to, or of an object
\* that process has replaced since the lookup
write(t, op, pc, next_pc, student) ==
    /\ At(t, op, pc)
    /\ IF threads[t].obj = 0
       THEN /\ DATA' = WithStudent(DATA, Lower(threads[t].req.key), student)
            /\ UNCHANGED replaced
       ELSE /\ replaced' = [replaced EXCEPT ![threads[t].obj] =
                               WithStudent(@, Lower(threads[t].req.key), student)]
            /\ UNCHANGED DATA
    /\ Goto(t, next_pc, threads[t].tmp)
    /\ UNCHANGED <<FILE, last, fuel>>

\* save_data(DATA); return {...}
save_and_return(t, op) ==
    /\ At(t, op, "save")
    /\ FILE' = save_data(DATA)
    /\ Finish(t, 200, <<>>)
    /\ UNCHANGED <<DATA, fuel, replaced>>

\* the record thread t bound to student
StudentOf(t) ==
    IF threads[t].obj = 0
    THEN DATA.students[Lower(threads[t].req.key)]
    ELSE replaced[threads[t].obj].students[Lower(threads[t].req.key)]

add_payment_thread ==
    \E t \in Threads :
      LET req == threads[t].req
          tmp == threads[t].tmp
          op == "add_payment"
      IN  \/ lookup(t, op, "read_paid")
          \* student["fees"]["paid"] += amount
          \/ compute(t, op, "read_paid", "write_paid", [paid |-> StudentOf(t).fees.paid])
          \/ write(t, op, "write_paid", "pending",
                   [StudentOf(t) EXCEPT !.fees.paid = tmp.paid + req.amount])
          \/ write(t, op, "pending", "receipt",
                   [StudentOf(t) EXCEPT
                       !.fees.pending = StudentOf(t).fees.total_fee - StudentOf(t).fees.paid])
          \* the entry is built, with the length of the history, before append is called
          \/ \E now \in Clock :
               compute(t, op, "receipt", "append",
                       [date |-> now.date, amount |-> req.amount, mode |-> req.mode,
                        receipt |-> "REC" \o Pad3(Len(StudentOf(t).fees.payment_history) + 1)])
          \/ write(t, op, "append", "save",
                   [StudentOf(t) EXCEPT !.fees.payment_history = Append(@, tmp)])
          \/ save_and_return(t, op)

update_attendance_thread ==
    \E t \in Threads :
      LET req == threads[t].req
          tmp == threads[t].tmp
          op == "update_attendance"
          subjects == StudentOf(t).attendance.subjects
      IN  \/ lookup(t, op, "entry")
          \/ write(t, op, "entry", "sum_present",
                   [StudentOf(t) EXCEPT !.attendance.subjects =
                       DictSet(@, req.subject,
                               [present |-> req.present, total |-> req.total,
                                percent |-> percent_of(req.present, req.total)])])
          \/ compute(t, op, "sum_present", "sum_total",
                     [total_present |-> SumField(subjects, "present")])
          \/ compute(t, op, "sum_total", "write_present",
                     [total_present |-> tmp.total_present,
                      total_classes |-> SumField(subjects, "total")])
          \/ write(t, op, "write_present", "write_total",
                   [StudentOf(t) EXCEPT !.attendance.present = tmp.total_present])
          \/ write(t, op, "write_total", "write_absent",
                   [StudentOf(t) EXCEPT !.attendance.total_classes = tmp.total_classes])
          \/ write(t, op, "write_absent", "write_overall",
                   [StudentOf(t) EXCEPT
                       !.attendance.absent = tmp.total_classes - tmp.total_present])
          \/ write(t, op, "write_overall", "save",
                   [StudentOf(t) EXCEPT
                       !.attendance.overall_percent =
                           percent_of(tmp.total_present, tmp.total_classes)])
          \/ save_and_return(t, op)

update_grade_thread ==
    \E t \in Threads :
      LET req == threads[t].req
          tmp == threads[t].tmp
          op == "update_grade"
          current_semester == StudentOf(t).grades.current_semester
      IN  \/ lookup(t, op, "entry")
          \/ write(t, op, "entry", "totals",
                   [StudentOf(t) EXCEPT !.grades.current_semester =
                       DictSet(@, req.subject,
                               [grade |-> req.grade, marks |-> req.marks,
                                credits |-> req.credits])])
          \/ compute(t, op, "totals", "write_sgpa",
                     [sgpa |-> sgpa_of(current_semester),
                      total_credits |-> SumField(current_semester, "credits")])
          \/ write(t, op, "write_sgpa", "write_earned",
                   [StudentOf(t) EXCEPT !.grades.sgpa = tmp.sgpa])
          \/ write(t, op, "write_earned", "save",
                   [StudentOf(t) EXCEPT !.grades.earned_credits = tmp.total_credits])
          \/ save_and_return(t, op)

get_student_thread ==
    \E t \in Threads :
      LET op == "get_student"
      IN  \/ lookup(t, op, "return")
          \/ /\ At(t, op, "return")
             /\ Finish(t, 200, [student |-> DATA.students[Lower(threads[t].req.key)],
                               key |-> Lower(threads[t].req.key)])
             /\ UNCHANGED <<DATA, FILE, fuel, replaced>>

\* the requests of a run in which a query arrives while a payment is recorded
RebindRequests ==
    { [op |-> "add_payment", key |-> "ADA", amount |-> 400, mode |-> "Online"],
      [op |-> "process", key |-> "ADA", text |-> "fees"] }

receive_rebind_request == receive(RebindRequests)

\* process on a thread: `DATA = load_data()` evaluates load_data() and then
\* binds the global DATA to the new object.  A handler that took `student` from
\* the object bound before keeps that object, which nothing else refers to.
process_thread ==
    \E t \in Threads :
      LET op == "process"
          holders == { u \in Threads : threads[u].obj = 0 }
      IN  \/ compute(t, op, "begin", "bind", [data |-> load_data(FILE)])
          \/ /\ At(t, op, "bind")
             /\ DATA' = threads[t].tmp.data
             /\ replaced' = IF holders = {} THEN replaced ELSE Append(replaced, DATA)
             /\ threads' = [u \in Threads |->
                              IF u = t THEN [threads[u] EXCEPT !.pc = op \o ":reply",
                                                               !.tmp = <<>>]
                              ELSE IF u \in holders
                                   THEN [threads[u] EXCEPT !.obj = Len(replaced) + 1]
                                   ELSE threads[u]]
             /\ UNCHANGED <<FILE, last, fuel>>
          \/ /\ At(t, op, "reply")
             /\ \E reply \in process_replies(DATA, [text |-> threads[t].req.text,
                                                    user |-> threads[t].req.key]) :
                   Finish(t, 200, [reply |-> reply])
             /\ UNCHANGED <<DATA, FILE, fuel, replaced>>

(***************************************************************************)
(* Specifications.  DATA = load_data() runs at import: the process starts  *)
(* from whatever document earlier runs persisted.  Spec starts from the    *)
(* empty document or from SeededStore, a document that one student's       *)
(* earlier requests (one per section of the record) left behind.           *)
(***************************************************************************)
SeedBasic == CHOOSE b \in StudentBasics : b.name = "Ada" /\ b.roll_no = "R01"
SeedNow == CHOOSE now \in Clock : TRUE

SeededStudent ==
    LET s0 == new_student(SeedBasic, SeedNow, 0)
        exam == CHOOSE e \in ExamDetails : TRUE
        book == CHOOSE b \in BookDetails : TRUE
        course == CHOOSE c \in CourseDetails : TRUE
    IN  [s0 EXCEPT
            !.attendance = attendance_updated(@, "Maths", 1, 8),
            !.grades = grades_updated(@, "DSA", "A", 85, 4),
            !.exams = exams_added(@, "DSA", exam),
            !.fees = fees_paid(fees_updated(@, 1000, 0, "31 Dec 2026"), 400, "Online", SeedNow),
            !.library = library_added(@, "SICP", book),
            !.courses = courses_added(@, "CS101", course)]

SeededStore == WithStudent(InitialStore, Lower(SeedBasic.name), SeededStudent)

Init ==
    /\ FILE \in {InitialStore, SeededStore}
    /\ DATA = load_data(FILE)
    /\ last = NoRequest
    /\ fuel = MaxOps
    /\ threads = NoThreads
    /\ replaced = <<>>

Next ==
    \/ create_student
    \/ update_student
    \/ delete_student
    \/ update_attendance
    \/ delete_attendance
    \/ update_grade
    \/ delete_grade
    \/ add_exam
    \/ delete_exam
    \/ update_fees
    \/ add_payment
    \/ add_library_book
    \/ return_book
    \/ add_course_to_student
    \/ remove_course
    \/ book_appointment
    \/ place_order

Spec == Init /\ [][Next]_vars

\* attendance requests only, in longer runs from the empty document
InitAttendance ==
    /\ FILE = InitialStore
    /\ DATA = load_data(FILE)
    /\ last = NoRequest
    /\ fuel = MaxAttOps
    /\ threads = NoThreads
    /\ replaced = <<>>

NextAttendance ==
    \/ create_student
    \/ delete_student
    \/ update_attendance
    \/ delete_attendance

SpecAttendance == InitAttendance /\ [][NextAttendance]_vars

\* grade requests only, in longer runs from the empty document
InitGrades ==
    /\ FILE = InitialStore
    /\ DATA = load_data(FILE)
    /\ last = NoRequest
    /\ fuel = MaxGradeOps
    /\ threads = NoThreads
    /\ replaced = <<>>

NextGrades ==
    \/ create_student
    \/ delete_student
    \/ update_grade
    \/ delete_grade

SpecGrades == InitGrades /\ [][NextGrades]_vars

\* fee requests only, in longer runs from the empty document
InitFees ==
    /\ FILE = InitialStore
    /\ DATA = load_data(FILE)
    /\ last = NoRequest
    /\ fuel = MaxFeeOps
    /\ threads = NoThreads
    /\ replaced = <<>>

NextFees ==
    \/ create_student
    \/ delete_student
    \/ update_fees
    \/ add_payment

SpecFees == InitFees /\ [][NextFees]_vars

\* the classifier applied to each query text
InitIntent ==
    /\ FILE = InitialStore
    /\ DATA = load_data(FILE)
    /\ last \in {Query(text) : text \in QueryTexts}
    /\ fuel = 0
    /\ threads = NoThreads
    /\ replaced = <<>>

NextIntent == detect_intent_call

SpecIntent == InitIntent /\ [][NextIntent]_vars

\* notice requests only, from the empty document
InitNotices ==
    /\ FILE = InitialStore
    /\ DATA = load_data(FILE)
    /\ last = NoRequest
    /\ fuel = MaxNoticeOps
    /\ threads = NoThreads
    /\ replaced = <<>>

NextNotices ==
    \/ create_notice
    \/ delete_notice
    \/ get_notices

SpecNotices == InitNotices /\ [][NextNotices]_vars

\* every mutating handler, from the empty or the seeded document
InitStore ==
    /\ FILE \in {InitialStore, SeededStore}
    /\ DATA = load_data(FILE)
    /\ last = NoRequest
    /\ fuel = MaxStoreOps
    /\ threads = NoThreads
    /\ replaced = <<>>

NextStore ==
    \/ create_student
    \/ update_student
    \/ delete_student
    \/ update_attendance
    \/ delete_attendance
    \/ update_grade
    \/ delete_grade
    \/ add_exam
    \/ delete_exam
    \/ update_fees
    \/ add_payment
    \/ add_library_book
    \/ return_book
    \/ add_course_to_student
    \/ remove_course
    \/ book_appointment
    \/ place_order
    \/ update_order_status
    \/ create_notice
    \/ delete_notice
    \/ add_menu_item
    \/ delete_menu_item
    \/ add_class

SpecStore == InitStore /\ [][NextStore]_vars

\* get_day_from_text applied to each text on each day of the week
InitWeekday ==
    /\ FILE = InitialStore
    /\ DATA = load_data(FILE)
    /\ last \in {DayQuery(text, day_index) : text \in DayTexts, day_index \in WeekdayNow}
    /\ fuel = 0
    /\ threads = NoThreads
    /\ replaced = <<>>

NextWeekday == get_day_from_text_call

SpecWeekday == InitWeekday /\ [][NextWeekday]_vars

\* The query path.  The documents it starts from hold the record of one
\* student after one attendance upsert: 18/20 is 90 percent, 3/4 is 75, 29/39
\* is 74, 17/20 is 85, 5/4 is 125 and -1/8 is -12.
QueryAttendance == {<<18, 20>>, <<3, 4>>, <<29, 39>>, <<17, 20>>, <<5, 4>>, <<-1, 8>>}

QueryStores ==
    {InitialStore}
        \cup { WithStudent(InitialStore, Lower(SeedBasic.name),
                           [new_student(SeedBasic, SeedNow, 0) EXCEPT
                               !.attendance = attendance_updated(@, "Maths", a[1], a[2])])
               : a \in QueryAttendance }

InitQuery ==
    /\ FILE \in QueryStores
    /\ DATA = load_data(FILE)
    /\ last = NoRequest
    /\ fuel = MaxQueryOps
    /\ threads = NoThreads
    /\ replaced = <<>>

NextQuery ==
    \/ create_student
    \/ update_attendance
    \/ get_student
    \/ process

SpecQuery == InitQuery /\ [][NextQuery]_vars

\* library requests only, from the empty document or from the document that
\* four add_library_book requests of one student left behind
LibraryStudent ==
    LET book == CHOOSE b \in BookDetails : TRUE
    IN  [new_student(SeedBasic, SeedNow, 0) EXCEPT
            !.library = library_added(library_added(library_added(library_added(
                            @, "SICP", book), "CLRS", book), "SICP", book), "CLRS", book)]

LibraryStores ==
    {InitialStore, WithStudent(InitialStore, Lower(SeedBasic.name), LibraryStudent)}

InitLibrary ==
    /\ FILE \in LibraryStores
    /\ DATA = load_data(FILE)
    /\ last = NoRequest
    /\ fuel = MaxLibraryOps
    /\ threads = NoThreads
    /\ replaced = <<>>

NextLibrary ==
    \/ create_student
    \/ delete_student
    \/ add_library_book
    \/ return_book

SpecLibrary == InitLibrary /\ [][NextLibrary]_vars

\* grade upserts and deletes on a student who has no grades yet, or whose only
\* grade was deleted (delete_grade leaves sgpa and earned_credits as they were)
UpsertStores ==
    { WithStudent(InitialStore, Lower(SeedBasic.name), new_student(SeedBasic, SeedNow, 0)),
      WithStudent(InitialStore, Lower(SeedBasic.name),
                  [new_student(SeedBasic, SeedNow, 0) EXCEPT
                      !.grades = grades_deleted(grades_updated(@, "DSA", "A", 85, 4), "DSA")]) }

InitUpserts ==
    /\ FILE \in UpsertStores
    /\ DATA = load_data(FILE)
    /\ last = NoRequest
    /\ fuel = MaxUpsertOps
    /\ threads = NoThreads
    /\ replaced = <<>>

NextUpserts ==
    \/ update_grade
    \/ delete_grade

SpecUpserts == InitUpserts /\ [][NextUpserts]_vars

\* a payment and a query on the threads of the server, from the seeded document
InitRebind ==
    /\ FILE = SeededStore
    /\ DATA = load_data(FILE)
    /\ last = NoRequest
    /\ fuel = MaxRequests
    /\ threads = NoThreads
    /\ replaced = <<>>

NextRebind ==
    \/ receive_rebind_request
    \/ add_payment_thread
    \/ process_thread

SpecRebind == InitRebind /\ [][NextRebind]_vars

\* fee updates whose save may fail, and reads, from the seeded document
InitSaveFailure ==
    /\ FILE = SeededStore
    /\ DATA = load_data(FILE)
    /\ last = NoRequest
    /\ fuel = MaxFailureOps
    /\ threads = NoThreads
    /\ replaced = <<>>

NextSaveFailure ==
    \/ update_fees
    \/ update_fees_save_fails
    \/ get_student

SpecSaveFailure == InitSaveFailure /\ [][NextSaveFailure]_vars

\* exam requests on a student whose earlier add_exam requests left four entries:
\* two subjects with two entries each, the later date first
ExamStudent ==
    LET early == [date |-> "05 Dec 2026", time |-> "14:00", venue |-> "Hall 2",
                  exam_type |-> "Mid-Sem", days_left |-> 33]
        mid == CHOOSE e \in ExamDetails : TRUE
        late == [date |-> "20 Dec 2026", time |-> "10:00", venue |-> "Hall 1",
                 exam_type |-> "End-Sem", days_left |-> 48]
    IN  [new_student(SeedBasic, SeedNow, 0) EXCEPT
            !.exams = exams_added(exams_added(exams_added(exams_added(
                          @, "OS", late), "DSA", mid), "OS", early), "DSA", mid)]

ExamStores ==
    { WithStudent(InitialStore, Lower(SeedBasic.name), ExamStudent), SeededStore }

InitExams ==
    /\ FILE \in ExamStores
    /\ DATA = load_data(FILE)
    /\ last = NoRequest
    /\ fuel = MaxExamOps
    /\ threads = NoThreads
    /\ replaced = <<>>

NextExams ==
    \/ add_exam
    \/ delete_exam

SpecExams == InitExams /\ [][NextExams]_vars

\* concurrent requests on the seeded document
InitConcurrent ==
    /\ FILE = SeededStore
    /\ DATA = load_data(FILE)
    /\ last = NoRequest
    /\ fuel = MaxRequests
    /\ threads = NoThreads
    /\ replaced = <<>>

NextConcurrent ==
    \/ receive_request
    \/ add_payment_thread
    \/ update_attendance_thread
    \/ update_grade_thread
    \/ get_student_thread

SpecConcurrent == InitConcurrent /\ [][NextConcurrent]_vars

(***************************************************************************)
(* Properties.                                                             *)
(***************************************************************************)
\* the request just handled, and the record it addressed
LastOk(op) == last.op = op /\ last.status = 200
LastKey == Lower(last.key)

\* round(n / d) for any d other than 0
round_ratio(n, d) == IF d > 0 THEN round_div(n, d) ELSE round_div(-n, -d)

\* C1: in every reachable state the stored attendance aggregates of every
\* student agree with the per-subject entries: total_classes is the sum of the
\* totals, present the sum of the presents, and overall_percent is
\* round(sum(present) / sum(total) x 100) when sum(total) > 0 and 0 otherwise.
C1_AggregatesAgreeWithSubjects ==
    \A k \in DOMAIN DATA.students :
        LET att == DATA.students[k].attendance
            sum_present == SumField(att.subjects, "present")
            sum_total == SumField(att.subjects, "total")
        IN  /\ att.total_classes = sum_total
            /\ att.present = sum_present
            /\ att.overall_percent =
                  IF sum_total > 0 THEN round_div(100 * sum_present, sum_total) ELSE 0

\* C2 as stated: right after an attendance upsert the subject's entry carries
\* percent = round(present / total x 100), 0 when total is 0, and overall_percent
\* is round(sum(present) / sum(total) x 100), 0 when sum(total) is 0.
C2_UpsertPercentZeroOnlyAtZero ==
    LastOk("update_attendance") =>
        LET att == DATA.students[LastKey].attendance
            entry == att.subjects[last.req.subject]
            sum_present == SumField(att.subjects, "present")
            sum_total == SumField(att.subjects, "total")
        IN  /\ entry.percent =
                  IF last.req.total = 0 THEN 0
                  ELSE round_ratio(100 * last.req.present, last.req.total)
            /\ att.overall_percent =
                  IF sum_total = 0 THEN 0 ELSE round_ratio(100 * sum_present, sum_total)

\* C2 (amended): an attendance upsert on an existing student replaces or inserts
\* the subject's entry, keeping every other entry, with percent =
\* round(present / total x 100) when total > 0 and 0 when total <= 0; right after
\* it overall_percent is round(sum(present) / sum(total) x 100) over all entries
\* when sum(total) > 0 and 0 when sum(total) <= 0.
C2_UpsertRecomputesPercent ==
    [][ (last'.op = "update_attendance" /\ last'.status = 200) =>
          LET key == Lower(last'.key)
              req == last'.req
              before == DATA.students[key].attendance.subjects
              att == DATA'.students[key].attendance
              sum_present == SumField(att.subjects, "present")
              sum_total == SumField(att.subjects, "total")
          IN  /\ DOMAIN att.subjects = DOMAIN before \cup {req.subject}
              /\ \A s \in DOMAIN before \ {req.subject} : att.subjects[s] = before[s]
              /\ att.subjects[req.subject] =
                    [present |-> req.present, total |-> req.total,
                     percent |-> IF req.total > 0
                                 THEN round_div(100 * req.present, req.total) ELSE 0]
              /\ att.overall_percent =
                    IF sum_total > 0 THEN round_div(100 * sum_present, sum_total) ELSE 0
      ]_vars

\* an upsert left a record with two subjects whose overall quotient is a tie
\* (2 / 16 = 12.5 percent, rounded to 12)
C2_Witness ==
    /\ LastOk("update_attendance")
    /\ DOMAIN DATA.students[LastKey].attendance.subjects = AttSubjects
    /\ DATA.students[LastKey].attendance.present = 2
    /\ DATA.students[LastKey].attendance.total_classes = 16
    /\ DATA.students[LastKey].attendance.overall_percent = 12

\* C3: for every student record in every reachable state,
\* attendance.absent = attendance.total_classes - attendance.present.
C3_AbsentIsTotalMinusPresent ==
    \A k \in DOMAIN DATA.students :
        LET att == DATA.students[k].attendance
        IN  att.absent = att.total_classes - att.present

\* a delete removed a subject of a record whose absent count is not 0
C3_Witness ==
    /\ LastOk("delete_attendance")
    /\ DATA.students[LastKey].attendance.absent > 0
    /\ DATA.students[LastKey].attendance.present # 0
    /\ DOMAIN DATA.students[LastKey].attendance.subjects # AttSubjects

\* C4: right after every grade upsert and every grade delete, sgpa is
\* round(sum(point(grade) x credits) / sum(credits), 2) over the current-term
\* mapping as it stands (0 when sum(credits) is not positive) and earned_credits
\* is sum(credits) over that mapping.
C4_SgpaMatchesMapping ==
    (last.op \in {"update_grade", "delete_grade"} /\ last.status = 200) =>
        LET grades == DATA.students[LastKey].grades
            sum_credits == SumField(grades.current_semester, "credits")
        IN  /\ grades.sgpa =
                  IF sum_credits > 0
                  THEN round_div(10 * total_points(grades.current_semester), sum_credits)
                  ELSE 0
            /\ grades.earned_credits = sum_credits

\* C5: for every student record, fees.pending = fees.total_fee - fees.paid in
\* every state reached by create_student, update_fees and add_payment.
C5_PendingIsTotalMinusPaid ==
    \A k \in DOMAIN DATA.students :
        LET fees == DATA.students[k].fees
        IN  fees.pending = fees.total_fee - fees.paid

\* a payment was added to a record whose fees were set before
C5_Witness ==
    /\ LastOk("add_payment")
    /\ DATA.students[LastKey].fees.total_fee = 1000
    /\ DATA.students[LastKey].fees.paid = 800
    /\ Len(DATA.students[LastKey].fees.payment_history) = 2

\* the exams of a record that has no entry for subject
NoExamOf(exams, subject) == \A i \in 1..Len(exams) : exams[i].subject # subject

\* C6: for an existing student, delete_attendance, delete_grade and delete_exam
\* of a subject the record does not contain return success and leave DATA and
\* the persisted document unchanged (so repeating the delete changes nothing).
C6_DeleteOfAbsentSubjectIsNoOp ==
    [][ LET op == last'.op
            key == Lower(last'.key)
        IN  (op \in {"delete_attendance", "delete_grade", "delete_exam"}
                /\ key \in DOMAIN DATA.students) =>
               /\ last'.status = 200
               /\ LET student == DATA.students[key]
                      subject == last'.req.subject
                      absent ==
                          CASE op = "delete_attendance" ->
                                   subject \notin DOMAIN student.attendance.subjects
                            [] op = "delete_grade" ->
                                   subject \notin DOMAIN student.grades.current_semester
                            [] op = "delete_exam" -> NoExamOf(student.exams, subject)
                  IN  absent => (DATA' = DATA /\ FILE' = FILE)
      ]_vars

\* delete_exam of a subject without an entry, as the first request on the seeded
\* record, whose exams (one entry of another subject) are still there
C6_Witness ==
    /\ LastOk("delete_exam")
    /\ fuel = MaxOps - 1
    /\ last.req.subject = "OS"
    /\ DATA.students[LastKey].exams = SeededStudent.exams
    /\ Len(DATA.students[LastKey].exams) = 1

StudentScopedMutations ==
    {"update_student", "delete_student", "update_attendance", "delete_attendance",
     "update_grade", "delete_grade", "add_exam", "delete_exam", "update_fees",
     "add_payment", "add_library_book", "return_book", "add_course_to_student",
     "remove_course", "book_appointment", "place_order"}

\* C8: every student-scoped mutation called with a key whose lower-case form is
\* not a key of DATA["students"] fails with status 404 and leaves DATA and the
\* persisted document unchanged.
C8_UnknownKeyIsNotFound ==
    [][ (last'.op \in StudentScopedMutations
            /\ Lower(last'.key) \notin DOMAIN DATA.students) =>
           (last'.status = 404 /\ DATA' = DATA /\ FILE' = FILE)
      ]_vars

\* a cafeteria order for an unknown key was refused while the store holds
\* another student
C8_Witness ==
    /\ last.op = "place_order"
    /\ last.status = 404
    /\ LastKey \notin DOMAIN DATA.students
    /\ DOMAIN DATA.students # {}

\* C9: create_student with a name whose lower-case form is already a key fails
\* with status 400 and leaves the store unchanged; otherwise it adds exactly one
\* record, under the lower-cased name, with every derived aggregate 0 and every
\* detail collection empty.
C9_CreateStudent ==
    [][ last'.op = "create_student" =>
          LET key == Lower(last'.key) IN
          IF key \in DOMAIN DATA.students
          THEN last'.status = 400 /\ DATA' = DATA /\ FILE' = FILE
          ELSE /\ last'.status = 200
               /\ DOMAIN DATA'.students = DOMAIN DATA.students \cup {key}
               /\ \A k \in DOMAIN DATA.students : DATA'.students[k] = DATA.students[k]
               /\ DATA' = [DATA EXCEPT !.students = DATA'.students]
               /\ LET r == DATA'.students[key]
                  IN  /\ r.name = last'.key
                      /\ r.attendance = [overall_percent |-> 0, total_classes |-> 0,
                                         present |-> 0, absent |-> 0,
                                         subjects |-> EmptyDict]
                      /\ r.grades.sgpa = 0
                      /\ r.grades.earned_credits = 0
                      /\ r.grades.current_semester = EmptyDict
                      /\ r.exams = <<>>
                      /\ r.library.total_borrowed = 0
                      /\ r.library.books_borrowed = <<>>
                      /\ r.fees.paid = 0
                      /\ r.fees.pending = 0
                      /\ r.fees.payment_history = <<>>
                      /\ r.courses = <<>>
      ]_vars

\* create_student "ADA" was refused because the record of "Ada" is stored under
\* the same key, and that record still has its details
C9_Witness ==
    /\ last.op = "create_student"
    /\ last.status = 400
    /\ last.key = "ADA"
    /\ DATA.students["ada"].name = "Ada"
    /\ DATA.students["ada"].attendance.subjects # EmptyDict

IdentityFields ==
    {"name", "email", "phone", "course", "year", "semester", "section", "roll_no",
     "dob", "address", "cgpa"}

\* C10: update_student on an existing key changes only the identity fields of
\* that record: every other field of the record, the key set of the store, every
\* other record and all shared reference data are unchanged.
C10_UpdateStudentFrame ==
    [][ (last'.op = "update_student" /\ last'.status = 200) =>
          LET key == Lower(last'.key) IN
          /\ DOMAIN DATA'.students = DOMAIN DATA.students
          /\ \A k \in DOMAIN DATA.students \ {key} : DATA'.students[k] = DATA.students[k]
          /\ DATA' = [DATA EXCEPT !.students = DATA'.students]
          /\ DOMAIN DATA'.students[key] = DOMAIN DATA.students[key]
          /\ \A f \in DOMAIN DATA.students[key] \ IdentityFields :
                DATA'.students[key][f] = DATA.students[key][f]
          /\ \A f \in IdentityFields : DATA'.students[key][f] = last'.req[f]
      ]_vars

\* update_student changed the identity of a record that has attendance, grades,
\* exams, books, payments and courses
C10_Witness ==
    /\ LastOk("update_student")
    /\ DATA.students[LastKey].roll_no = "R02"
    /\ DATA.students[LastKey].id = SeededStudent.id
    /\ DATA.students[LastKey].attendance = SeededStudent.attendance
    /\ DATA.students[LastKey].grades = SeededStudent.grades
    /\ DATA.students[LastKey].exams # <<>>
    /\ DATA.students[LastKey].library.books_borrowed # <<>>
    /\ DATA.students[LastKey].fees.payment_history # <<>>
    /\ DATA.students[LastKey].courses # <<>>

\* the tests of detect_intent in the order C7 states
IntentOrder ==
    <<"attendance", "timetable", "exams", "grades", "library", "fees", "notices",
      "courses", "profile", "help", "greet", "placements", "events", "faculty",
      "cafeteria", "cgpa_calc">>

\* the positions of IntentOrder whose rule has a keyword inside t
MatchingRules(t) ==
    {i \in 1..Len(IntentOrder) :
        \E word \in intent_keywords[IntentOrder[i]] : Contains(t, word)}

\* C7: detect_intent returns the tag of the first rule, in the order attendance,
\* timetable, exams, grades, library, fees, notices, courses, profile, help,
\* greet, placements, events, faculty, cafeteria, cgpa_calc, that has a keyword
\* occurring as a substring of the lower-cased text, and unknown when no rule
\* has one; a text with an attendance keyword and a grades keyword is attendance.
C7_FirstMatchingRuleWins ==
    last.op = "detect_intent" =>
        LET t == Lower(last.req.text)
            hits == MatchingRules(t)
        IN  /\ last.ret = IF hits = {} THEN "unknown"
                          ELSE IntentOrder[CHOOSE i \in hits : \A j \in hits : i <= j]
            /\ (AnyIn(t, {"attendance", "present", "absent"})
                  /\ AnyIn(t, {"grade", "result", "marks", "cgpa", "sgpa", "gpa", "score"}))
               => last.ret = "attendance"

\* a text in capitals with a grades keyword before an attendance keyword was
\* classified as attendance
C7_Witness ==
    /\ last.op = "detect_intent"
    /\ last.req.text = "marks ABSENT"
    /\ last.ret = "attendance"

\* the handlers that write to the store
Mutations ==
    StudentScopedMutations
        \cup {"create_student", "update_order_status", "create_notice", "delete_notice",
              "add_menu_item", "delete_menu_item", "add_class"}

\* C11: with requests run one at a time, after every mutation that returns
\* success the persisted document equals DATA in full, and no step changes DATA
\* without rewriting the persisted document with it.
C11_PersistedEqualsMemory ==
    [][ /\ (last'.op \in Mutations /\ last'.status = 200) => FILE' = save_data(DATA')
        /\ DATA' # DATA => FILE' = save_data(DATA')
      ]_vars

\* update_order_status changed the status of an order and the document on disk
\* holds the new status
C11_Witness ==
    /\ LastOk("update_order_status")
    /\ DATA.students[LastKey].cafeteria_orders[1].status = "Ready"
    /\ FILE.students[LastKey].cafeteria_orders[1].status = "Ready"

\* the IDs of a notice list, in its order
NoticeIdsOf(notices) == [i \in 1..Len(notices) |-> notices[i].id]

\* C12: create_notice gives the new notice the ID (number of notices before the
\* call) + 1 and inserts it at index 0, keeping the earlier notices in their
\* order; get_notices returns the list as stored, so after two creations on an
\* empty list it returns them newest first with the IDs 2 then 1.
C12_CreateNoticeAtFront ==
    [][ /\ last'.op = "create_notice" =>
              /\ last'.status = 200
              /\ Len(DATA'.notices) = Len(DATA.notices) + 1
              /\ Tail(DATA'.notices) = DATA.notices
              /\ Head(DATA'.notices).id = Len(DATA.notices) + 1
              /\ Head(DATA'.notices).title = last'.req.title
        /\ last'.op = "get_notices" => last'.ret.notices = DATA.notices
        /\ (last'.op = "get_notices" /\ last.op = "create_notice"
                /\ fuel = MaxNoticeOps - 2 /\ Len(DATA.notices) = 2) =>
              NoticeIdsOf(last'.ret.notices) = <<2, 1>>
      ]_vars

\* get_notices after the creation of "Holiday" and then "Fee deadline" on the
\* empty list returned the second notice first
C12_Witness ==
    /\ last.op = "get_notices"
    /\ fuel = MaxNoticeOps - 3
    /\ NoticeIdsOf(last.ret.notices) = <<2, 1>>
    /\ last.ret.notices[1].title = "Fee deadline"
    /\ last.ret.notices[2].title = "Holiday"

\* C13: for any sequence of create_notice and delete_notice calls no two notices
\* in the store share an ID (each new notice gets an ID greater than the ID of
\* every notice present).
C13_NoticeIdsUnique ==
    \A i, j \in 1..Len(DATA.notices) :
        i # j => DATA.notices[i].id # DATA.notices[j].id

\* the weekday after each weekday
DayAfter ==
    [monday |-> "tuesday", tuesday |-> "wednesday", wednesday |-> "thursday",
     thursday |-> "friday", friday |-> "saturday", saturday |-> "sunday",
     sunday |-> "monday"]

\* the weekday whose datetime.weekday() is day_index
DayOfIndex(day_index) ==
    CASE day_index = 0 -> "monday"   [] day_index = 1 -> "tuesday"
      [] day_index = 2 -> "wednesday" [] day_index = 3 -> "thursday"
      [] day_index = 4 -> "friday"    [] day_index = 5 -> "saturday"
      [] day_index = 6 -> "sunday"

\* C18: get_day_from_text returns the current weekday whenever the text (in
\* lower case, as the function reads it) contains "today", also when it contains
\* "tomorrow" or a weekday name as well; otherwise, when it contains "tomorrow",
\* the weekday following the current one, Sunday followed by Monday, also when
\* the text names a weekday; otherwise a weekday name that occurs in the text;
\* and the current weekday when the text contains none of these.
C18_DayPrecedence ==
    last.op = "get_day_from_text" =>
        LET t == Lower(last.req.text)
            current == DayOfIndex(last.req.weekday)
            named == {d \in DOMAIN DayAfter : Contains(t, d)}
        IN  IF Contains(t, "today") THEN last.ret = current
            ELSE IF Contains(t, "tomorrow") THEN last.ret = DayAfter[current]
            ELSE IF named # {} THEN last.ret \in named
            ELSE last.ret = current

\* on a Sunday, a text with "Tomorrow" and a weekday name gave Monday
C18_Witness ==
    /\ last.op = "get_day_from_text"
    /\ last.req.text = "Tomorrow or Friday"
    /\ last.req.weekday = 6
    /\ last.ret = "monday"

\* C16: for every query text, whatever intent it classifies to, process called
\* with a caller identifier whose lower-case form is not a key of the store
\* returns an ordinary successful reply carrying the apology message and creates
\* no record for that identifier.
C16_UnknownCallerGetsApology ==
    [][ (last'.op = "process" /\ Lower(last'.key) \notin DOMAIN DATA.students) =>
           /\ last'.status = 200
           /\ last'.ret.reply = "Sorry, I couldn't find data for " \o last'.key
                                   \o ". Please check your credentials."
           /\ Lower(last'.key) \notin DOMAIN DATA'.students
           /\ DATA'.students = DATA.students
           /\ FILE' = FILE
      ]_vars

\* an attendance query of the unknown caller "Bob" was answered with the apology
\* while the store holds the record of another student
C16_Witness ==
    /\ last.op = "process"
    /\ last.key = "Bob"
    /\ detect_intent(Lower(last.req.text)) = "attendance"
    /\ last.ret.reply = "Sorry, I couldn't find data for Bob. Please check your credentials."
    /\ DOMAIN DATA.students = {"ada"}

\* C17: for an attendance query by an existing student the reply reports the
\* record's current overall_percent, contains the low-attendance warning exactly
\* when overall_percent < 75 and the commendation exactly when
\* overall_percent >= 90, never both; with one subject at present = 18,
\* total = 20 the reply contains "90%" and the commendation.
C17_AttendanceReply ==
    (/\ last.op = "process"
     /\ Lower(last.key) \in DOMAIN DATA.students
     /\ detect_intent(Lower(last.req.text)) = "attendance") =>
        LET att == DATA.students[Lower(last.key)].attendance
            reply == last.ret.reply
            warned == Contains(reply, "Your attendance is below 75%")
            commended == Contains(reply, "Excellent attendance!")
        IN  /\ Contains(reply, "Your overall attendance is "
                                  \o ToString(att.overall_percent) \o "%.")
            /\ warned <=> att.overall_percent < 75
            /\ commended <=> att.overall_percent >= 90
            /\ ~(warned /\ commended)
            /\ (DOMAIN att.subjects = {"Maths"}
                  /\ att.subjects["Maths"].present = 18
                  /\ att.subjects["Maths"].total = 20) =>
                  (Contains(reply, "90%") /\ commended)

\* "what is my attendance" of a student with 18 of 20 classes in one subject was
\* answered with 90% and the commendation
C17_Witness ==
    /\ last.op = "process"
    /\ last.req.text = "what is my attendance"
    /\ Lower(last.key) \in DOMAIN DATA.students
    /\ DATA.students[Lower(last.key)].attendance.subjects =
          [Maths |-> [present |-> 18, total |-> 20, percent |-> 90]]
    /\ Contains(last.ret.reply, "90%")
    /\ Contains(last.ret.reply, "Excellent attendance! Keep it up!")

\* f"REC{i:03d}" for the receipt numbers below 1000
ReceiptOf(i) ==
    "REC" \o (IF i < 10 THEN "00" ELSE IF i < 100 THEN "0" ELSE "") \o ToString(i)

\* C19: a student's payment history is append-only with sequential receipts:
\* add_payment increases paid by the amount and appends exactly one entry; no
\* request other than one that deletes the student removes or changes an
\* entry; and in every state the i-th entry of each history carries receipt
\* number i, so the receipts of one student are unique.
C19_PaymentHistoryAppendOnly ==
    /\ [](\A k \in DOMAIN DATA.students :
            LET history == DATA.students[k].fees.payment_history
            IN  /\ \A i \in 1..Len(history) : history[i].receipt = ReceiptOf(i)
                /\ \A i, j \in 1..Len(history) :
                      i # j => history[i].receipt # history[j].receipt)
    /\ [][ /\ \A k \in DOMAIN DATA.students :
                IF k \notin DOMAIN DATA'.students
                THEN last'.op = "delete_student" /\ Lower(last'.key) = k
                ELSE LET before == DATA.students[k].fees
                         after == DATA'.students[k].fees
                     IN  IF last'.op = "add_payment" /\ last'.status = 200
                               /\ Lower(last'.key) = k
                         THEN /\ after.paid = before.paid + last'.req.amount
                              /\ Len(after.payment_history) =
                                    Len(before.payment_history) + 1
                              /\ SubSeq(after.payment_history, 1,
                                        Len(before.payment_history)) =
                                    before.payment_history
                              /\ after.payment_history[Len(after.payment_history)].amount =
                                    last'.req.amount
                         ELSE after.payment_history = before.payment_history
           /\ \A k \in DOMAIN DATA'.students \ DOMAIN DATA.students :
                DATA'.students[k].fees.payment_history = <<>>
         ]_vars

\* a third payment was added to a history and got receipt REC003
C19_Witness ==
    /\ LastOk("add_payment")
    /\ Len(DATA.students[LastKey].fees.payment_history) = 3
    /\ DATA.students[LastKey].fees.payment_history[3].receipt = "REC003"
    /\ DATA.students[LastKey].fees.payment_history[1].receipt = "REC001"

\* the entries of books whose title is not title, in their order
RECURSIVE BooksWithout(_, _)
BooksWithout(books, title) ==
    IF Len(books) = 0 THEN <<>>
    ELSE IF Head(books).title = title THEN BooksWithout(Tail(books), title)
    ELSE <<Head(books)>> \o BooksWithout(Tail(books), title)

\* C20: for every student record in every reachable state library.total_borrowed
\* is the number of entries of library.books_borrowed; add_library_book appends
\* one entry at the end, also when total_borrowed is at or above max_books;
\* return_book removes every entry whose title equals the given title exactly,
\* keeps the other entries in their order, and changes nothing when no title
\* matches.
C20_LibraryCountAndReturn ==
    /\ [](\A k \in DOMAIN DATA.students :
            DATA.students[k].library.total_borrowed =
                Len(DATA.students[k].library.books_borrowed))
    /\ [][ LET key == Lower(last'.key) IN
           /\ (last'.op = "add_library_book" /\ key \in DOMAIN DATA.students) =>
                 LET before == DATA.students[key].library.books_borrowed
                     after == DATA'.students[key].library.books_borrowed
                 IN  /\ last'.status = 200
                     /\ Len(after) = Len(before) + 1
                     /\ SubSeq(after, 1, Len(before)) = before
                     /\ after[Len(after)].title = last'.req.title
           /\ (last'.op = "return_book" /\ key \in DOMAIN DATA.students) =>
                 LET before == DATA.students[key].library.books_borrowed
                     after == DATA'.students[key].library.books_borrowed
                 IN  /\ last'.status = 200
                     /\ after = BooksWithout(before, last'.req.title)
                     /\ (\A i \in 1..Len(before) : before[i].title # last'.req.title)
                           => DATA' = DATA
         ]_vars

\* a book was added to a record that already held max_books books
C20_Witness ==
    /\ LastOk("add_library_book")
    /\ DATA.students[LastKey].library.max_books = 5
    /\ DATA.students[LastKey].library.total_borrowed = 6
    /\ Len(DATA.students[LastKey].library.books_borrowed) = 6

\* the stores a request leaves when it runs alone, from start to end, on data
Effects(data, r) ==
    LET key == Lower(r.key) IN
    IF key \notin DOMAIN data.students THEN {data}
    ELSE CASE r.op = "add_payment" ->
                { [data EXCEPT !.students[key].fees = fees_paid(@, r.amount, r.mode, now)]
                  : now \in Clock }
           [] r.op = "update_attendance" ->
                { [data EXCEPT !.students[key].attendance =
                      attendance_updated(@, r.subject, r.present, r.total)] }
           [] r.op = "update_grade" ->
                { [data EXCEPT !.students[key].grades =
                      grades_updated(@, r.subject, r.grade, r.marks, r.credits)] }
           [] OTHER -> {data}

\* the stores left by the requests reqs[order[i]], reqs[order[i + 1]], ... run
\* one after the other from one of stores
RECURSIVE SerialResults(_, _, _, _)
SerialResults(stores, reqs, order, i) ==
    IF i > Len(order) THEN stores
    ELSE SerialResults(UNION {Effects(d, reqs[order[i]]) : d \in stores}, reqs, order, i + 1)

\* the requests thread t has completed, and those it has received
CompletedBy(t) == [i \in 1..Len(threads[t].done) |-> threads[t].done[i].req]
ReceivedBy(t) ==
    CompletedBy(t) \o (IF threads[t].pc = "idle" THEN <<>> ELSE <<threads[t].req>>)

CompletedRequests == CompletedBy(1) \o CompletedBy(2)
ReceivedRequests == ReceivedBy(1) \o ReceivedBy(2)

\* no thread is inside a handler
Quiescent == \A t \in Threads : threads[t].pc = "idle"

\* C14: all writes are serialized: when concurrent mutation requests have all
\* returned, the in-memory store and the persisted store equal the result of
\* running them one after the other in some order; no update is lost and no two
\* payment-history entries of a student carry the same receipt.
C14_ConcurrentWritesSerialized ==
    Quiescent =>
        /\ \E order \in Orderings(1..Len(CompletedRequests)) :
              \E d \in SerialResults({SeededStore}, CompletedRequests, order, 1) :
                 DATA = d /\ FILE = save_data(d)
        /\ \A k \in DOMAIN DATA.students :
              LET history == DATA.students[k].fees.payment_history
              IN  \A i, j \in 1..Len(history) :
                     i # j => history[i].receipt # history[j].receipt

\* C15: get_student running concurrently with mutations never returns a
\* partially written record: the record it returns is the record as some of the
\* requests received so far, run one after the other, leave it.
C15_ReadsSeeWholeRecords ==
    (last.op = "get_student" /\ last.status = 200) =>
        \E chosen \in SUBSET (1..Len(ReceivedRequests)) :
           \E order \in Orderings(chosen) :
              \E d \in SerialResults({SeededStore}, ReceivedRequests, order, 1) :
                 last.ret.student = d.students[last.ret.key]

\* the handlers that compute on the numbers of a request
NumericHandlers == {"update_attendance", "update_grade", "update_fees", "add_payment"}

TablePoints(letter) ==
    CASE letter = "A+" -> 100 [] letter = "A"  -> 90 [] letter = "A-" -> 85
      [] letter = "B+" -> 80  [] letter = "B"  -> 70 [] letter = "B-" -> 65
      [] letter = "C+" -> 60  [] letter = "C"  -> 50 [] letter = "D"  -> 40
      [] OTHER -> 0

\* the sum of f[x] over the finite set S
RECURSIVE SumOver(_, _)
SumOver(f, S) ==
    IF S = {} THEN 0
    ELSE LET x == CHOOSE y \in S : TRUE IN f[x] + SumOver(f, S \ {x})

\* h (in hundredths) is points / credits rounded to two decimals, a tie to the
\* even digit: points is in tenths, credits > 0
IsRounded(h, points, credits) ==
    LET diff == h * credits - 10 * points
        dist == IF diff < 0 THEN -diff ELSE diff
    IN  /\ 2 * dist <= credits
        /\ 2 * dist = credits => h % 2 = 0

\* C22: update_grade replaces or inserts the subject's entry, leaves the other
\* entries alone, and stores sgpa and earned_credits computed from the whole
\* mapping as it is after the upsert (whatever sgpa and earned_credits were
\* before): earned_credits is the sum of the credits, sgpa the table points
\* weighted by credits over that sum, to two decimals, letters outside the table
\* counting 0 points with their credits in the divisor; DSA (A, 4) and OS (B+, 3)
\* alone give 8.57.
C22_GradeUpsertRecomputes ==
    [][ (last'.op = "update_grade" /\ last'.status = 200) =>
          LET key == Lower(last'.key)
              r == last'.req
              before == DATA.students[key].grades.current_semester
              grades == DATA'.students[key].grades
              mapping == grades.current_semester
              credits == [x \in DOMAIN mapping |-> mapping[x].credits]
              points == [x \in DOMAIN mapping |->
                            TablePoints(mapping[x].grade) * mapping[x].credits]
              sum_credits == SumOver(credits, DOMAIN mapping)
          IN  /\ DOMAIN mapping = DOMAIN before \cup {r.subject}
              /\ mapping[r.subject] =
                    [grade |-> r.grade, marks |-> r.marks, credits |-> r.credits]
              /\ \A x \in DOMAIN before \ {r.subject} : mapping[x] = before[x]
              /\ grades.earned_credits = sum_credits
              /\ sum_credits > 0 =>
                    IsRounded(grades.sgpa, SumOver(points, DOMAIN mapping), sum_credits)
              /\ sum_credits <= 0 => grades.sgpa = 0
              /\ (DOMAIN mapping = {"DSA", "OS"}
                    /\ mapping["DSA"].grade = "A" /\ mapping["DSA"].credits = 4
                    /\ mapping["OS"].grade = "B+" /\ mapping["OS"].credits = 3)
                 => grades.sgpa = 857
      ]_vars

\* DSA (A, 4 credits) and then OS (B+, 3 credits) were upserted and are the
\* whole mapping: sgpa is 8.57 and earned_credits 7
C22_Witness ==
    /\ LastOk("update_grade")
    /\ last.req.subject = "OS"
    /\ LET grades == DATA.students[LastKey].grades
       IN  /\ DOMAIN grades.current_semester = {"DSA", "OS"}
           /\ grades.current_semester["DSA"].grade = "A"
           /\ grades.current_semester["DSA"].credits = 4
           /\ grades.current_semester["OS"].grade = "B+"
           /\ grades.current_semester["OS"].credits = 3
           /\ grades.sgpa = 857
           /\ grades.earned_credits = 7

\* C23: in every state reached by create_notice and delete_notice calls,
\* delete_notice(id) removes exactly one notice when a notice with that ID
\* exists, keeps all other notices in their order, and leaves the list unchanged
\* when no notice has that ID.
C23_DeleteRemovesOneNotice ==
    [][ last'.op = "delete_notice" =>
          LET notice_id == last'.req.notice_id
              present == { i \in 1..Len(DATA.notices) : DATA.notices[i].id = notice_id }
          IN  /\ last'.status = 200
              /\ present = {} => DATA'.notices = DATA.notices
              /\ present # {} =>
                    \E i \in present :
                       DATA'.notices = SubSeq(DATA.notices, 1, i - 1)
                                          \o SubSeq(DATA.notices, i + 1, Len(DATA.notices))
      ]_vars

\* C24: the course code is the key of a student's courses: in every state
\* reached by add_course_to_student and remove_course calls no two entries of
\* one student's courses have the same code.
C24_CourseCodesUnique ==
    \A k \in DOMAIN DATA.students :
        LET courses == DATA.students[k].courses
        IN  \A i, j \in 1..Len(courses) : i # j => courses[i].code # courses[j].code

\* C25: a mutation that returns success is contained in the persisted store when
\* it returns, also when process rebinds DATA to a freshly loaded store while
\* the mutation runs: when add_payment returns 200, the payment-history entry it
\* appended is in the persisted record and the persisted store is the store the
\* handler changed.
C25_SuccessfulMutationPersisted ==
    [][ \A t \in Threads :
          (threads[t].pc = "add_payment:save" /\ threads'[t].pc = "idle") =>
             LET key == Lower(threads[t].req.key)
                 history == FILE'.students[key].fees.payment_history
             IN  /\ last'.status = 200
                 /\ \E i \in 1..Len(history) : history[i] = threads[t].tmp
                 /\ FILE'.students[key] = StudentOf(t)
      ]_vars

\* C26: when save_data fails during a mutation the request fails and the
\* in-memory store is not authoritative: a later get_student returns the record
\* of the last successfully persisted store, not the change that was not
\* persisted.
C26_ReadsReturnPersistedData ==
    (last.op = "get_student" /\ last.status = 200) =>
        /\ last.ret.key \in DOMAIN FILE.students
        /\ last.ret.student = FILE.students[last.ret.key]

\* C27: a student's exams keep insertion order: add_exam puts the new entry at
\* the end and leaves the entries before it as they were, also when the subject
\* already has an entry; delete_exam removes every entry of the subject and
\* keeps the remaining entries in their relative order.
C27_ExamsKeepInsertionOrder ==
    [][ LET key == Lower(last'.key)
            subject == last'.req.subject
        IN  /\ (last'.op = "add_exam" /\ key \in DOMAIN DATA.students) =>
                  LET exams == DATA.students[key].exams
                      after == DATA'.students[key].exams
                  IN  /\ last'.status = 200
                      /\ Len(after) = Len(exams) + 1
                      /\ \A i \in 1..Len(exams) : after[i] = exams[i]
                      /\ after[Len(after)].subject = subject
            /\ (last'.op = "delete_exam" /\ key \in DOMAIN DATA.students) =>
                  LET exams == DATA.students[key].exams
                      after == DATA'.students[key].exams
                      kept == { i \in 1..Len(exams) : exams[i].subject # subject }
                  IN  /\ last'.status = 200
                      /\ Len(after) = Cardinality(kept)
                      /\ \A i \in kept :
                            after[Cardinality({ j \in kept : j <= i })] = exams[i]
      ]_vars

\* delete_exam of DSA removed both DSA entries of the four and left the two OS
\* entries in the order they were added in, the later date first
C27_Witness ==
    /\ LastOk("delete_exam")
    /\ last.req.subject = "DSA"
    /\ LET exams == DATA.students[LastKey].exams
       IN  /\ Len(exams) = 2
           /\ exams[1].subject = "OS" /\ exams[1].date = "20 Dec 2026"
           /\ exams[2].subject = "OS" /\ exams[2].date = "05 Dec 2026"

\* C28: detect_intent never returns cgpa_calc: a text with one of the keywords
\* "predict cgpa", "calculate cgpa", "target cgpa", "gpa calculator" contains the
\* grades keyword "cgpa" or "gpa" and is classified by the grades rule or a rule
\* before it, and process never gives the cgpa_calc reply.
C28_CgpaCalcUnreachable ==
    last.op = "detect_intent" =>
        LET t == Lower(last.req.text)
            query == [text |-> last.req.text, user |-> SeedBasic.name]
        IN  /\ last.ret # "cgpa_calc"
            /\ AnyIn(t, {"predict cgpa", "calculate cgpa", "target cgpa", "gpa calculator"})
               => /\ AnyIn(t, {"cgpa", "gpa"})
                  /\ last.ret \in {"attendance", "timetable", "exams", "grades"}
            /\ process_replies(SeededStore, query)
                  \cap student_replies(SeededStore, SeededStudent, t, "cgpa_calc") = {}

\* the text "gpa calculator", a keyword of the cgpa_calc rule, was classified as
\* grades
C28_Witness ==
    /\ last.op = "detect_intent"
    /\ last.req.text = "gpa calculator"
    /\ last.ret = "grades"

====
